---- MODULE Spec2Model ----
(***************************************************************************)
(* Windowed timeline of src/src/App.tsx: bidirectional year pagination,    *)
(* positional height cache, prefix-sum offsets, prepend scroll shift and   *)
(* the pending-snap convergence of "jump to today", the language anchor    *)
(* and the unmount.                                                        *)
(*                                                                         *)
(* React is modelled at the granularity of one committed render: an event  *)
(* handler, frame callback or fetch continuation runs, every state update  *)
(* it queued is applied by the next render, the ref callbacks, layout      *)
(* effects and passive effects of that render run in declaration order,    *)
(* and renders repeat until no effect queues a further update.  Effects    *)
(* read React state from the render they belong to (their closure) and     *)
(* refs and the DOM live.                                                  *)
(*                                                                         *)
(* Indices are 0-based as in the source; a JS array a of length n is the   *)
(* TLA+ sequence s with a[i] = s[i+1].  Pixel values are even integers so  *)
(* that the source's divisions by two are exact.                           *)
(***************************************************************************)
EXTENDS Integers, Sequences, FiniteSets, TLC

\* ------------------------------------------------------------ constants
\* cap of the length of a timeline searched for today
MaxDates == 3
ESTIMATED_ITEM_HEIGHT == 260
ITEM_GAP == 32
OVERSCAN_PX == 1200
SCROLL_THRESHOLD == 120
SCROLL_SNAP_ATTEMPTS == 3
SNAP_TOLERANCE == 2
\* remaining of a language anchor as toggleLanguage registers it
LANGUAGE_ANCHOR_ATTEMPTS == 6
\* the platform filters (PLATFORM_FILTERS), two of them
Platforms == {"PC", "NS"}

\* scrollEl.clientHeight, the height the viewport host reports
ViewportHeight == 200

\* ------------------------------------------------------------ bounds
\* longest page payload a fetch returns
MaxPage == 1
\* cap of the measurement epoch (measureVersion)
MaxVersion == 6
\* cap of the number of jumps (pending-snap registrations) in one behaviour
MaxJumps == 2
\* items of a page longer than the overscanned viewport
LongPage == 6
\* items of a page that fits the overscanned viewport
ShortPage == 2
\* largest item count of an offsets table looked up on its own
MaxItems == 5

\* null of a string-valued ref or state, of a pixel value, of a year, of the
\* two pending-request refs; the empty displayDate
NULL == "null"
NoPx == -1
NoYear == 0
NoSnap == [index |-> -1, remaining |-> 0, lastMeasureVersion |-> 0]
NoInitialScroll == [targetIndex |-> -1, yearAnchorIndex |-> -1]
NoDisplay == 0
NoAnchor == [date |-> 0, screen |-> 0]
EmptyTable == [count |-> 0, hts |-> <<>>]
NoPin == [scrollTop |-> -1, count |-> 0, heights |-> <<>>, offsets |-> <<>>,
          range |-> [start |-> 0, end |-> -1], direction |-> "null"]
NoLanguageAnchor == [index |-> -1, centerDelta |-> 0, remaining |-> 0,
                     lastMeasureVersion |-> 0]
NoStep == [resets |-> 0, registered |-> FALSE, applied |-> <<>>, stale |-> {},
           shifts |-> <<>>, measured |-> 0,
           arrived |-> [direction |-> "none", year |-> 0, entries |-> <<>>,
                        others |-> <<>>]]
NoAnswer == [kind |-> "none", input |-> 0, index |-> 0, start |-> 0, end |-> -1,
             clamped |-> 0, dates |-> <<>>, variant |-> 0]
\* the Virtuoso-based variant before its initial load
INITIAL_FIRST_ITEM_INDEX == 100000
NoVirtuoso ==
    [data |-> <<>>, firstItemIndex |-> INITIAL_FIRST_ITEM_INDEX,
     error |-> NULL, availableYears |-> <<>>, loadedYears |-> {},
     canAutoLoad |-> FALSE, loadingPrevRef |-> FALSE, loadingNextRef |-> FALSE,
     didInitialScrollRef |-> FALSE, initialLoad |-> "pending",
     inflight |-> {}, timers |-> <<>>, scrolledTo |-> -1, initialJumps |-> 0]

\* The page index: index.json lists these years; CurrentYear is
\* new Date().getFullYear().
IndexYears == <<2024, 2025, 2026>>
CurrentYear == 2025

\* Date keys "YYYY-MM-DD" are modelled as the integer YYYY * 100 + day.
DaysOf(year) == {year * 100 + d : d \in 1..MaxPage}
AllDates == UNION {DaysOf(IndexYears[i]) : i \in 1..Len(IndexYears)}

\* new Date(date).getTime(): the key read as a point in time.  Keys of one
\* year are in day order and years are a whole year apart.
DateTime(date) == (date \div 100) * 366 + (date % 100)

\* date.startsWith(`${year}-`)
YearOfDate(date) == date \div 100

\* heights a rendered item can have in the DOM
DomHeights == {120, 400}
\* and the height of a node that is not laid out (display: none, detached)
AnyHeights == DomHeights \cup {0}
TallHeight == {400}
ShortHeight == {120}

Min2(a, b) == IF a <= b THEN a ELSE b
Max2(a, b) == IF a >= b THEN a ELSE b
Abs(a) == IF a >= 0 THEN a ELSE 0 - a

SetMin(S) == CHOOSE x \in S : \A y \in S : x <= y
SetMax(S) == CHOOSE x \in S : \A y \in S : x >= y

\* ------------------------------------------------------------ mergeTimeline
\* position of the entry with this date in an ordered Map, 0 when absent
IndexOfDate(seq, date) ==
    IF \E i \in 1..Len(seq) : seq[i].date = date
    THEN CHOOSE i \in 1..Len(seq) : seq[i].date = date
    ELSE 0

\* a keyed store that never replaces
MapSetAppending(seq, value) == Append(seq, value)

\* grouped.set(date, value) of a JS Map: replaces in place, else appends
MapSet(seq, value) ==
    LET i == IndexOfDate(seq, value.date)
    IN  IF i = 0 THEN Append(seq, value) ELSE [seq EXCEPT ![i] = value]

\* prev.forEach(entry => grouped.set(entry.date, copy of entry))
RECURSIVE GroupPrev(_, _)
GroupPrev(grouped, prev) ==
    IF prev = <<>> THEN grouped
    ELSE GroupPrev(MapSet(grouped, Head(prev)), Tail(prev))

\* an incoming entry that takes the place of the entry grouped under its date
MergeEntryReplacing(grouped, entry) ==
    MapSet(grouped, [date |-> entry.date,
                     displayDate |-> IF entry.displayDate = NoDisplay
                                     THEN entry.date
                                     ELSE entry.displayDate,
                     games |-> entry.games])

\* an incoming entry: its games are pushed onto the entry already grouped
\* under its date, or onto a fresh entry (displayDate || date)
MergeEntry(grouped, entry) ==
    LET i == IndexOfDate(grouped, entry.date)
        current == IF i # 0 THEN grouped[i]
                   ELSE [date |-> entry.date,
                         displayDate |-> IF entry.displayDate = NoDisplay
                                         THEN entry.date
                                         ELSE entry.displayDate,
                         games |-> <<>>]
    IN  MapSet(grouped, [current EXCEPT !.games = current.games \o entry.games])

RECURSIVE GroupEntries(_, _)
GroupEntries(grouped, entries) ==
    IF entries = <<>> THEN grouped
    ELSE GroupEntries(MergeEntry(grouped, Head(entries)), Tail(entries))

\* Array.prototype.sort with the comparator DateTime(a) - DateTime(b): stable
RECURSIVE InsertSorted(_, _)
InsertSorted(sorted, e) ==
    IF sorted = <<>> THEN <<e>>
    ELSE IF DateTime(Head(sorted).date) <= DateTime(e.date)
         THEN <<Head(sorted)>> \o InsertSorted(Tail(sorted), e)
         ELSE <<e>> \o sorted

RECURSIVE SortByDate(_)
SortByDate(seq) ==
    IF seq = <<>> THEN <<>>
    ELSE InsertSorted(SortByDate(SubSeq(seq, 1, Len(seq) - 1)), seq[Len(seq)])

\* a merge that keeps only the incoming page
mergeTimelineOfPage(prev, entries) ==
    SortByDate(GroupEntries(<<>>, entries))

\* the merge without its sort
mergeTimelineUnsorted(prev, entries) ==
    GroupEntries(GroupPrev(<<>>, prev), entries)

mergeTimeline(prev, entries) ==
    SortByDate(GroupEntries(GroupPrev(<<>>, prev), entries))

\* ------------------------------------------------------------ heights, offsets
\* heightsRef.current.get(index) ?? ESTIMATED_ITEM_HEIGHT
\* a height lookup without the estimate
getItemHeightOrZero(hts, index) ==
    IF index \in DOMAIN hts THEN hts[index] ELSE 0

getItemHeight(hts, index) ==
    IF index \in DOMAIN hts THEN hts[index] ELSE ESTIMATED_ITEM_HEIGHT

estimateAddedHeight(count) ==
    IF count <= 0 THEN 0 ELSE count * (ESTIMATED_ITEM_HEIGHT + ITEM_GAP)

\* the loop body of the offsets memo: the last item has no gap after it
RECURSIVE OffsetsFrom(_, _, _, _)
OffsetsFrom(result, i, count, hts) ==
    IF i >= count THEN result
    ELSE LET gap == IF i = count - 1 THEN 0 ELSE ITEM_GAP
         IN  OffsetsFrom(Append(result, result[i + 1] + getItemHeight(hts, i) + gap),
                         i + 1, count, hts)

\* the loop stopping one item early
ComputeOffsetsShort(count, hts) == OffsetsFrom(<<0>>, 0, count - 1, hts)

ComputeOffsets(count, hts) == OffsetsFrom(<<0>>, 0, count, hts)

\* offsets[i] ?? dflt
OffsetAt(offs, i, dflt) == IF i >= 0 /\ i < Len(offs) THEN offs[i + 1] ELSE dflt

TotalHeight(offs) == OffsetAt(offs, Len(offs) - 1, 0)

RECURSIVE BinarySearch(_, _, _, _)
BinarySearch(offs, offset, low, high) ==
    IF low < high
    THEN LET mid == (low + high) \div 2
         IN  IF offs[mid + 1] <= offset
             THEN BinarySearch(offs, offset, mid + 1, high)
             ELSE BinarySearch(offs, offset, low, mid)
    ELSE low

\* the search result taken as it is: the first entry above the offset
findIndexForOffsetAbove(offs, offset) ==
    Max2(0, BinarySearch(offs, offset, 0, Len(offs) - 1))

findIndexForOffset(offs, offset) ==
    Max2(0, BinarySearch(offs, offset, 0, Len(offs) - 1) - 1)

\* the range of the viewport alone, without its overscan margin
visibleRangeNoOverscan(count, top, vh, offs) ==
    IF count = 0 THEN [start |-> 0, end |-> -1]
    ELSE [start |-> findIndexForOffset(offs, Max2(0, top)),
          end |-> Min2(count - 1, findIndexForOffset(offs, top + vh))]

\* the range ending before the item found at its lower end
visibleRangeEndExclusive(count, top, vh, offs) ==
    IF count = 0 THEN [start |-> 0, end |-> -1]
    ELSE [start |-> findIndexForOffset(offs, Max2(0, top - OVERSCAN_PX)),
          end |-> Min2(count - 1, findIndexForOffset(offs, top + vh + OVERSCAN_PX) - 1)]

visibleRange(count, top, vh, offs) ==
    IF count = 0 THEN [start |-> 0, end |-> -1]
    ELSE [start |-> findIndexForOffset(offs, Max2(0, top - OVERSCAN_PX)),
          end |-> Min2(count - 1, findIndexForOffset(offs, top + vh + OVERSCAN_PX))]

\* the clamp at zero alone
ClampScrollAtZero(value, total, client) == Max2(value, 0)

ClampScroll(value, total, client) ==
    Min2(Max2(value, 0), Max2(0, total - client))

\* getScrollTarget(index).clamped: offsets and totalHeight are the memoized
\* ones of the render, the target's height is read from the live cache
getScrollTarget(offs, hts, index) ==
    ClampScroll(OffsetAt(offs, index, 0) - ViewportHeight \div 2
                    + getItemHeight(hts, index) \div 2,
                TotalHeight(offs), ViewportHeight)

\* ------------------------------------------------------------ jump target
\* the index scrollToToday and the initial-scroll effect pick: the item dated
\* today, else the nearer of its neighbours (the earlier one on a tie), -1 for
\* an empty sequence.  Every key of the model parses (toLocalDayValue never
\* returns null).
Today == 202501

RECURSIVE ScanToday(_, _, _)
ScanToday(tl, i, prevIndex) ==
    IF i >= Len(tl) THEN [target |-> -1, prev |-> prevIndex, next |-> -1]
    ELSE LET itemValue == DateTime(tl[i + 1].date)
         IN  IF itemValue = DateTime(Today)
             THEN [target |-> i, prev |-> prevIndex, next |-> -1]
             ELSE IF itemValue < DateTime(Today)
                  THEN ScanToday(tl, i + 1, i)
                  ELSE [target |-> -1, prev |-> prevIndex, next |-> i]

\* the choice between the neighbours of today that prefers the later one
\* when both are as far
findTodayIndexLaterOnTie(tl) ==
    LET scan == ScanToday(tl, 0, -1)
    IN  IF scan.target # -1 THEN scan.target
        ELSE IF scan.prev # -1 /\ scan.next # -1
             THEN LET prevDiff == DateTime(Today) - DateTime(tl[scan.prev + 1].date)
                      nextDiff == DateTime(tl[scan.next + 1].date) - DateTime(Today)
                  IN  IF prevDiff < nextDiff THEN scan.prev ELSE scan.next
             ELSE IF scan.prev # -1 THEN scan.prev
                  ELSE scan.next

findTodayIndex(tl) ==
    LET scan == ScanToday(tl, 0, -1)
    IN  IF scan.target # -1 THEN scan.target
        ELSE IF scan.prev # -1 /\ scan.next # -1
             THEN LET prevDiff == DateTime(Today) - DateTime(tl[scan.prev + 1].date)
                      nextDiff == DateTime(tl[scan.next + 1].date) - DateTime(Today)
                  IN  IF prevDiff <= nextDiff THEN scan.prev ELSE scan.next
             ELSE IF scan.prev # -1 THEN scan.prev
                  ELSE scan.next

findYearAnchorIndex(tl, year) ==
    IF \E i \in 1..Len(tl) : YearOfDate(tl[i].date) = year
    THEN (CHOOSE i \in 1..Len(tl) :
              /\ YearOfDate(tl[i].date) = year
              /\ \A j \in 1..(i - 1) : YearOfDate(tl[j].date) # year) - 1
    ELSE -1

\* ------------------------------------------------------------ page index
SeqToSet(seq) == {seq[i] : i \in 1..Len(seq)}

\* loadInitial: the current year if listed, else the latest earlier year,
\* else the first listed year
InitialYear ==
    LET years == SeqToSet(IndexYears)
        previousYears == {y \in years : y < CurrentYear}
    IN  IF CurrentYear \in years THEN CurrentYear
        ELSE IF previousYears # {} THEN SetMax(previousYears)
             ELSE IndexYears[1]

\* fetchYear: the message `Failed to load ${year}.json` of the error it
\* throws when the page is refused
FailedToLoad(year) ==
    CASE year = 2024 -> "Failed to load 2024.json"
      [] year = 2025 -> "Failed to load 2025.json"
      [] year = 2026 -> "Failed to load 2026.json"
      [] OTHER -> "Failed to load a page"

\* prevYear / nextYear memos; NoYear when there is none
\* the older page chosen from the wrong end of the list
prevYearOfOldest(available, loaded) ==
    IF loaded = {} THEN NoYear
    ELSE LET older == {y \in SeqToSet(available) : y < SetMin(loaded)}
         IN  IF older = {} THEN NoYear ELSE SetMin(older)

prevYearOf(available, loaded) ==
    IF loaded = {} THEN NoYear
    ELSE LET older == {y \in SeqToSet(available) : y < SetMin(loaded)}
         IN  IF older = {} THEN NoYear ELSE SetMax(older)

nextYearOf(available, loaded) ==
    IF loaded = {} THEN NoYear
    ELSE LET newer == {y \in SeqToSet(available) : y > SetMax(loaded)}
         IN  IF newer = {} THEN NoYear ELSE SetMin(newer)

\* ------------------------------------------------------------ state
VARIABLES
    \* React state (useState)
    timeline, error, availableYears, loadedYears, loadingPrev, loadingNext,
    canAutoLoad, isTransitioning, measureVersion, scrollTop,
    \* the offsets memo of the last render
    offsets,
    \* refs
    heights, pendingScrollShift, pendingSnap, pendingInitialScroll,
    didInitialScroll, todayJumpRaf, lastScrollTop, scrollDirection,
    pendingScrollTop, scrollRaf, measureRaf,
    \* the scrollable element and the browser
    elScrollTop, scrollEvent, smoothTarget, rafQueue, domHeight,
    \* fetches in flight
    initialLoad, inflight,
    \* the visibleRange memo of the last render
    window,
    \* more React state and refs
    animationsEnabled, language, selectedPlatforms, pendingLanguageAnchor,
    userInteracted,
    \* whether the component is mounted
    mounted,
    \* history: whether the number of failed adjacent-page fetches is odd; the
    \* item at the viewport top and its screen position when the
    \* last older page was merged; the height cache as the last merge left
    \* it, before the commit of its render; the number of jumps registered
    \* and the snaps the latest one received
    failed, anchor, mergedHeights, jumps, snaps,
    \* what the step to this state did: what the effects saw that started an
    \* adjacent-page fetch (triggers); the resetMeasurements calls, whether a
    \* language anchor was registered, the snaps applied and the readers of
    \* an offsets table that was not the prefix sums of the heights then
    \* stored (step)
    triggers, step,
    \* the newest epoch the pending jump and the pending language anchor
    \* have snapped at, 0 when they have not
    consumed,
    \* an offsets table looked up on its own and the answer of the last
    \* lookup; the window an observer noted
    table, answer, pinned,
    \* the component of the Virtuoso-based variant, as one record
    virtuoso

vars == <<timeline, error, availableYears, loadedYears, loadingPrev, loadingNext,
          canAutoLoad, isTransitioning, measureVersion, scrollTop, offsets,
          heights, pendingScrollShift, pendingSnap, pendingInitialScroll,
          didInitialScroll, todayJumpRaf, lastScrollTop, scrollDirection,
          pendingScrollTop, scrollRaf, measureRaf, elScrollTop, scrollEvent,
          smoothTarget, rafQueue, domHeight, initialLoad, inflight, failed,
          anchor, mergedHeights, jumps, snaps,
          table,
          answer,
          window,
          pinned,
          triggers,
          animationsEnabled,
          userInteracted,
          language,
          selectedPlatforms,
          pendingLanguageAnchor,
          step,
          consumed,
          mounted,
          virtuoso>>

\* the variables of the component and of the browser
program == <<timeline, error, availableYears, loadedYears, loadingPrev,
             loadingNext, canAutoLoad, isTransitioning, measureVersion,
             scrollTop, offsets, heights, pendingScrollShift, pendingSnap,
             pendingInitialScroll, didInitialScroll, todayJumpRaf,
             lastScrollTop, scrollDirection, pendingScrollTop, scrollRaf,
             measureRaf, elScrollTop, scrollEvent, smoothTarget, rafQueue,
             domHeight, initialLoad, inflight, failed, anchor,
             mergedHeights, jumps, snaps,
             window,
             triggers,
             animationsEnabled,
             userInteracted,
             language,
             selectedPlatforms,
             pendingLanguageAnchor,
             step,
             consumed,
             mounted>>

\* the React state a render is a function of
ReactState(s) ==
    [timeline |-> s.timeline, error |-> s.error,
     availableYears |-> s.availableYears, loadedYears |-> s.loadedYears,
     loadingPrev |-> s.loadingPrev, loadingNext |-> s.loadingNext,
     canAutoLoad |-> s.canAutoLoad, isTransitioning |-> s.isTransitioning,
     animationsEnabled |-> s.animationsEnabled,
     language |-> s.language, selectedPlatforms |-> s.selectedPlatforms,
     measureVersion |-> s.measureVersion, scrollTop |-> s.scrollTop]

\* what the effects of the next render compare their dependencies with
Snapshot(s) ==
    [state |-> ReactState(s), total |-> TotalHeight(s.offsets)]

\* The whole state as one record, so that a handler, the renders it causes
\* and their effects compose as functions.  prev is the last committed
\* render; frameNow (the callbacks of the running frame still to run) and
\* cancelled (the running initial-scroll callback's effect was cleaned up)
\* are only used while one action runs.
Cur ==
    LET s == [timeline |-> timeline, error |-> error,
              availableYears |-> availableYears, loadedYears |-> loadedYears,
              loadingPrev |-> loadingPrev, loadingNext |-> loadingNext,
              canAutoLoad |-> canAutoLoad, isTransitioning |-> isTransitioning,
              measureVersion |-> measureVersion, scrollTop |-> scrollTop,
              offsets |-> offsets, heights |-> heights,
              pendingScrollShift |-> pendingScrollShift,
              pendingSnap |-> pendingSnap,
              pendingInitialScroll |-> pendingInitialScroll,
              didInitialScroll |-> didInitialScroll,
              todayJumpRaf |-> todayJumpRaf, lastScrollTop |-> lastScrollTop,
              scrollDirection |-> scrollDirection,
              pendingScrollTop |-> pendingScrollTop, scrollRaf |-> scrollRaf,
              measureRaf |-> measureRaf, elScrollTop |-> elScrollTop,
              scrollEvent |-> scrollEvent, smoothTarget |-> smoothTarget,
              rafQueue |-> rafQueue, domHeight |-> domHeight,
              initialLoad |-> initialLoad, inflight |-> inflight,
              failed |-> failed,
              anchor |-> anchor, mergedHeights |-> mergedHeights,
              jumps |-> jumps, snaps |-> snaps,
              window |-> window,
              triggers |-> <<>>,
              animationsEnabled |-> animationsEnabled,
              userInteracted |-> userInteracted,
              language |-> language,
              selectedPlatforms |-> selectedPlatforms,
              pendingLanguageAnchor |-> pendingLanguageAnchor,
              step |-> NoStep,
              consumed |-> consumed,
              mounted |-> mounted,
              frameNow |-> <<>>, cancelled |-> FALSE, prev |-> <<>>]
    IN  [s EXCEPT !.prev = Snapshot(s)]

Assign(s) ==
    /\ s.measureVersion <= MaxVersion
    /\ timeline' = s.timeline
    /\ error' = s.error
    /\ availableYears' = s.availableYears
    /\ loadedYears' = s.loadedYears
    /\ loadingPrev' = s.loadingPrev
    /\ loadingNext' = s.loadingNext
    /\ canAutoLoad' = s.canAutoLoad
    /\ isTransitioning' = s.isTransitioning
    /\ measureVersion' = s.measureVersion
    /\ scrollTop' = s.scrollTop
    /\ offsets' = s.offsets
    /\ heights' = s.heights
    /\ pendingScrollShift' = s.pendingScrollShift
    /\ pendingSnap' = s.pendingSnap
    /\ pendingInitialScroll' = s.pendingInitialScroll
    /\ didInitialScroll' = s.didInitialScroll
    /\ todayJumpRaf' = s.todayJumpRaf
    /\ lastScrollTop' = s.lastScrollTop
    /\ scrollDirection' = s.scrollDirection
    /\ pendingScrollTop' = s.pendingScrollTop
    /\ scrollRaf' = s.scrollRaf
    /\ measureRaf' = s.measureRaf
    /\ elScrollTop' = s.elScrollTop
    /\ scrollEvent' = s.scrollEvent
    /\ smoothTarget' = s.smoothTarget
    /\ rafQueue' = s.rafQueue
    /\ domHeight' = s.domHeight
    /\ initialLoad' = s.initialLoad
    /\ inflight' = s.inflight
    /\ failed' = s.failed
    /\ anchor' = s.anchor
    /\ mergedHeights' = s.mergedHeights
    /\ jumps' = s.jumps
    /\ snaps' = s.snaps
    /\ table' = table
    /\ answer' = answer
    /\ window' = s.window
    /\ pinned' = pinned
    /\ virtuoso' = virtuoso
    /\ triggers' = s.triggers
    /\ animationsEnabled' = s.animationsEnabled
    /\ userInteracted' = s.userInteracted
    /\ language' = s.language
    /\ selectedPlatforms' = s.selectedPlatforms
    /\ pendingLanguageAnchor' = s.pendingLanguageAnchor
    /\ step' = s.step
    /\ consumed' = s.consumed
    /\ mounted' = s.mounted

\* the step of a mounted component
Install(s) ==
    /\ mounted
    /\ Assign(s)

\* what is left of s for a component that has unmounted: the state updates
\* that were queued are dropped, refs and the browser keep what was written
Detached(s) ==
    [s EXCEPT !.timeline = timeline, !.error = error,
              !.availableYears = availableYears, !.loadedYears = loadedYears,
              !.loadingPrev = loadingPrev, !.loadingNext = loadingNext,
              !.canAutoLoad = canAutoLoad, !.isTransitioning = isTransitioning,
              !.animationsEnabled = animationsEnabled, !.language = language,
              !.selectedPlatforms = selectedPlatforms,
              !.measureVersion = measureVersion, !.scrollTop = scrollTop]

\* the step of a continuation that outlives the component
InstallDetached(s) ==
    /\ ~mounted
    /\ Assign(Detached(s))

\* state after the component has mounted: nothing loaded, the index fetch of
\* loadInitial in flight, scrollTop read from the element (0), the epoch
\* bumped once by each of the two resetMeasurements effects
Init ==
    /\ timeline = <<>>
    /\ error = NULL
    /\ availableYears = <<>>
    /\ loadedYears = {}
    /\ loadingPrev = FALSE
    /\ loadingNext = FALSE
    /\ canAutoLoad = FALSE
    /\ isTransitioning = FALSE
    /\ measureVersion = 2
    /\ scrollTop = 0
    /\ offsets = <<0>>
    /\ heights = <<>>
    /\ pendingScrollShift = 0
    /\ pendingSnap = NoSnap
    /\ pendingInitialScroll = NoInitialScroll
    /\ didInitialScroll = FALSE
    /\ todayJumpRaf = FALSE
    /\ lastScrollTop = 0
    /\ scrollDirection = NULL
    /\ pendingScrollTop = NoPx
    /\ scrollRaf = FALSE
    /\ measureRaf = FALSE
    /\ elScrollTop = 0
    /\ scrollEvent = FALSE
    /\ smoothTarget = NoPx
    /\ rafQueue = <<>>
    /\ domHeight = <<>>
    /\ initialLoad = "pending"
    /\ inflight = <<>>
    /\ failed = FALSE
    /\ anchor = NoAnchor
    /\ mergedHeights = <<>>
    /\ jumps = 0
    /\ snaps = 0
    /\ table = EmptyTable
    /\ answer = NoAnswer
    /\ window = [start |-> 0, end |-> -1]
    /\ pinned = NoPin
    /\ triggers = <<>>
    /\ animationsEnabled = TRUE
    /\ userInteracted = FALSE
    /\ language = "en"
    /\ selectedPlatforms = {"NS"}
    /\ pendingLanguageAnchor = NoLanguageAnchor
    /\ step = NoStep
    /\ consumed = [jump |-> 0, anchor |-> 0]
    /\ mounted = TRUE
    /\ virtuoso = NoVirtuoso

\* ------------------------------------------------------------ browser
\* window.requestAnimationFrame(cb)
RequestFrame(s, cb) == [s EXCEPT !.rafQueue = Append(@, cb)]

\* cancelAnimationFrame / a cancelled flag: the callbacks of these kinds,
\* queued or due in the running frame, will do nothing
DropKinds(queue, kinds) == SelectSeq(queue, LAMBDA cb : cb.kind \notin kinds)

CancelFrames(s, kinds) ==
    [s EXCEPT !.rafQueue = DropKinds(@, kinds), !.frameNow = DropKinds(@, kinds)]

\* scrollEl.scrollTop = value: the element moves at once (an animated scroll
\* in progress ends) and reports it by a scroll event later
SetElScrollTop(s, value) ==
    [s EXCEPT !.elScrollTop = value,
              !.smoothTarget = NoPx,
              !.scrollEvent = (@ \/ value # s.elScrollTop)]

\* reader reads the offsets table offs: noted when the table is not the
\* prefix sums of the heights stored at that moment
ReadOffsets(s, offs, reader) ==
    IF offs = ComputeOffsets(Len(s.timeline), s.heights) THEN s
    ELSE [s EXCEPT !.step.stale = @ \cup {reader}]

\* ------------------------------------------------------------ measureItem
HeightSet(hts, index, height) ==
    [j \in (DOMAIN hts) \cup {index} |-> IF j = index THEN height ELSE hts[j]]

\* a ref callback that requests a frame for every changed measurement
measureItemUnbatched(s, index, height) ==
    IF height > 0 /\ (index \notin DOMAIN s.heights \/ s.heights[index] # height)
    THEN RequestFrame([s EXCEPT !.heights = HeightSet(@, index, height),
                                !.step.measured = @ + 1,
                                !.measureRaf = TRUE],
                      [kind |-> "measure"])
    ELSE s

\* a ref callback that stores whatever height it is given
measureItemAnyHeight(s, index, height) ==
    IF index \notin DOMAIN s.heights \/ s.heights[index] # height
    THEN LET t == [s EXCEPT !.heights = HeightSet(@, index, height),
                            !.step.measured = @ + 1]
         IN  IF t.measureRaf THEN t
             ELSE RequestFrame([t EXCEPT !.measureRaf = TRUE], [kind |-> "measure"])
    ELSE s

\* the ref callback of item index whose node is height px tall.  The two
\* refs pendingMeasureVersionRef and measureRafRef are set and cleared
\* together: measureRaf stands for both.
measureItem(s, index, height) ==
    IF height > 0 /\ (index \notin DOMAIN s.heights \/ s.heights[index] # height)
    THEN LET t == [s EXCEPT !.heights = HeightSet(@, index, height),
                            !.step.measured = @ + 1]
         IN  IF t.measureRaf THEN t
             ELSE RequestFrame([t EXCEPT !.measureRaf = TRUE], [kind |-> "measure"])
    ELSE s

\* commit of a render: the ref callback of every materialized item runs
RECURSIVE MeasureRange(_, _, _)
MeasureRange(s, i, end) ==
    IF i > end THEN s
    ELSE MeasureRange(measureItem(s, i, s.domHeight[s.timeline[i + 1].date]),
                      i + 1, end)

CommitRefs(r) == MeasureRange(r, r.window.start, r.window.end)

\* ------------------------------------------------------------ effects
\* Each effect is a function of r, the render it belongs to (its closure,
\* r.prev being the render before), and of m, the state as the effects
\* before it left it.

\* useLayoutEffect [timeline.length, totalHeight]: apply the pending shift
ScrollShiftEffect(r, m) ==
    IF /\ Len(r.timeline) = Len(r.prev.state.timeline)
       /\ TotalHeight(r.offsets) = r.prev.total
    THEN m
    ELSE IF m.pendingScrollShift = 0 THEN m
    ELSE LET clamped == ClampScroll(m.elScrollTop + m.pendingScrollShift,
                                    TotalHeight(r.offsets), ViewportHeight)
             t == SetElScrollTop(
                      [m EXCEPT !.pendingScrollShift = 0,
                                !.step.shifts = Append(@,
                                    [shift |-> m.pendingScrollShift,
                                     from |-> m.elScrollTop,
                                     to |-> clamped,
                                     total |-> TotalHeight(r.offsets)])],
                      clamped)
         IN  RequestFrame([t EXCEPT !.scrollTop = clamped], [kind |-> "transition1"])

\* loadAdjacentYear up to its await: the fetch is in flight
loadAdjacentYear(r, m, year, direction) ==
    IF year \in r.loadedYears THEN m
    ELSE [m EXCEPT !.loadingPrev = IF direction = "prev" THEN TRUE ELSE @,
                   !.isTransitioning = IF direction = "prev" THEN TRUE ELSE @,
                   !.loadingNext = IF direction = "next" THEN TRUE ELSE @,
                   !.inflight = Append(@, [year |-> year, direction |-> direction]),
                   !.triggers = Append(@,
                       [direction |-> direction, year |-> year,
                        scrollTop |-> r.scrollTop,
                        total |-> TotalHeight(r.offsets),
                        scrollDirection |-> m.scrollDirection,
                        canAutoLoad |-> r.canAutoLoad,
                        available |-> r.availableYears,
                        loaded |-> r.loadedYears,
                        busy |-> Cardinality({k \in 1..Len(m.inflight) :
                                                 m.inflight[k].direction = direction})])]

\* the older-edge trigger without its in-flight test
PrevEdgeGuardUnflagged(r, m) ==
    /\ Len(r.timeline) # 0
    /\ prevYearOf(r.availableYears, r.loadedYears) # NoYear
    /\ r.canAutoLoad
    /\ r.scrollTop <= SCROLL_THRESHOLD
    /\ m.scrollDirection = "up"

PrevEdgeGuard(r, m) ==
    /\ Len(r.timeline) # 0
    /\ prevYearOf(r.availableYears, r.loadedYears) # NoYear
    /\ ~r.loadingPrev
    /\ r.canAutoLoad
    /\ r.scrollTop <= SCROLL_THRESHOLD
    /\ m.scrollDirection = "up"

\* useEffect [canAutoLoad, loadAdjacentYear, loadingPrev, prevYear, scrollTop,
\* timeline.length]; loadAdjacentYear changes with loadedYears
PrevEdgeEffect(r, m) ==
    LET p == r.prev.state
    IN  IF /\ p.canAutoLoad = r.canAutoLoad
           /\ p.loadedYears = r.loadedYears
           /\ p.availableYears = r.availableYears
           /\ p.loadingPrev = r.loadingPrev
           /\ p.scrollTop = r.scrollTop
           /\ Len(p.timeline) = Len(r.timeline)
        THEN m
        ELSE IF PrevEdgeGuard(r, m)
             THEN loadAdjacentYear(r, m, prevYearOf(r.availableYears, r.loadedYears),
                                   "prev")
             ELSE m

\* the newer-edge trigger without its direction test
NextEdgeGuardAnyDirection(r, m) ==
    /\ Len(r.timeline) # 0
    /\ nextYearOf(r.availableYears, r.loadedYears) # NoYear
    /\ ~r.loadingNext
    /\ r.canAutoLoad
    /\ r.scrollTop + ViewportHeight >= TotalHeight(r.offsets) - SCROLL_THRESHOLD

NextEdgeGuard(r, m) ==
    /\ Len(r.timeline) # 0
    /\ nextYearOf(r.availableYears, r.loadedYears) # NoYear
    /\ ~r.loadingNext
    /\ r.canAutoLoad
    /\ r.scrollTop + ViewportHeight >= TotalHeight(r.offsets) - SCROLL_THRESHOLD
    /\ m.scrollDirection = "down"

\* useEffect [canAutoLoad, loadAdjacentYear, loadingNext, nextYear, scrollTop,
\* totalHeight, viewportHeight, timeline.length]
NextEdgeEffect(r, m) ==
    LET p == r.prev.state
    IN  IF /\ p.canAutoLoad = r.canAutoLoad
           /\ p.loadedYears = r.loadedYears
           /\ p.availableYears = r.availableYears
           /\ p.loadingNext = r.loadingNext
           /\ p.scrollTop = r.scrollTop
           /\ r.prev.total = TotalHeight(r.offsets)
           /\ Len(p.timeline) = Len(r.timeline)
        THEN m
        ELSE IF NextEdgeGuard(r, m)
             THEN loadAdjacentYear(r, m, nextYearOf(r.availableYears, r.loadedYears),
                                   "next")
             ELSE m

\* the offsets memo, and with it getScrollTarget and scrollToIndex, is a new
\* object exactly when timeline.length or measureVersion changed
OffsetsChanged(r) ==
    \/ Len(r.timeline) # Len(r.prev.state.timeline)
    \/ r.measureVersion # r.prev.state.measureVersion

\* an offsets memo keyed by the item count alone
OffsetsMemoOfCount(s) ==
    IF Len(s.timeline) # Len(s.prev.state.timeline)
    THEN ComputeOffsets(Len(s.timeline), s.heights)
    ELSE s.offsets

\* useMemo [timeline.length, measureVersion, getItemHeight, ITEM_GAP]
OffsetsMemo(s) ==
    IF OffsetsChanged(s)
    THEN ComputeOffsets(Len(s.timeline), s.heights)
    ELSE s.offsets

\* whether the visibleRange memo is computed anew by this render
RangeInputsChanged(r) ==
    \/ r.scrollTop # r.prev.state.scrollTop
    \/ Len(r.timeline) # Len(r.prev.state.timeline)
    \/ OffsetsChanged(r)

\* the visibleRange memo keyed by the position and the item count alone
RangeMemoOfPosition(r) ==
    IF /\ r.scrollTop = r.prev.state.scrollTop
       /\ Len(r.timeline) = Len(r.prev.state.timeline)
    THEN r.window
    ELSE visibleRange(Len(r.timeline), r.scrollTop, ViewportHeight, r.offsets)

\* useMemo [scrollTop, viewportHeight, timeline.length, findIndexForOffset]:
\* findIndexForOffset is a new function exactly when offsets is a new array
RangeMemo(r) ==
    IF /\ r.scrollTop = r.prev.state.scrollTop
       /\ Len(r.timeline) = Len(r.prev.state.timeline)
       /\ ~OffsetsChanged(r)
    THEN r.window
    ELSE visibleRange(Len(r.timeline), r.scrollTop, ViewportHeight, r.offsets)

\* a convergence that snaps whenever the position is off the target
SnapDecisionEager(r, m) ==
    LET pending == m.pendingSnap
        target == getScrollTarget(r.offsets, m.heights, pending.index)
    IN  IF Len(r.timeline) = 0 THEN "empty"
        ELSE IF Abs(r.scrollTop - target) <= SNAP_TOLERANCE THEN "converged"
        ELSE IF pending.remaining <= 0 THEN "exhausted"
        ELSE "snap"

\* useEffect [getScrollTarget, measureVersion, scrollTop, timeline.length]:
\* the convergence of a pending jump
SnapDecision(r, m) ==
    LET pending == m.pendingSnap
        target == getScrollTarget(r.offsets, m.heights, pending.index)
    IN  IF Len(r.timeline) = 0 THEN "empty"
        ELSE IF Abs(r.scrollTop - target) <= SNAP_TOLERANCE THEN "converged"
        ELSE IF pending.remaining <= 0 THEN "exhausted"
        ELSE IF r.measureVersion = pending.lastMeasureVersion THEN "wait"
        ELSE "snap"

\* the convergence effect subscribed to the rendered position alone
PendingSnapEffectOnScroll(r, m) ==
    IF r.scrollTop = r.prev.state.scrollTop THEN m
    ELSE IF m.pendingSnap = NoSnap THEN m
    ELSE LET decision == SnapDecision(r, m)
             target == getScrollTarget(r.offsets, m.heights, m.pendingSnap.index)
         IN  IF decision \in {"empty", "converged", "exhausted"}
             THEN [m EXCEPT !.pendingSnap = NoSnap]
             ELSE IF decision = "wait" THEN m
             ELSE LET t == SetElScrollTop(
                              [m EXCEPT !.pendingSnap =
                                  [index |-> m.pendingSnap.index,
                                   remaining |-> m.pendingSnap.remaining - 1,
                                   lastMeasureVersion |-> r.measureVersion],
                                        !.snaps = @ + 1,
                                        !.step.applied = Append(@,
                                  [kind |-> "jump",
                                   epoch |-> r.measureVersion,
                                   last |-> m.pendingSnap.lastMeasureVersion,
                                   before |-> m.consumed.jump,
                                   delta |-> Abs(r.scrollTop - target),
                                   budget |-> m.pendingSnap.remaining]),
                                        !.consumed.jump = r.measureVersion],
                              target)
                  IN  [t EXCEPT !.scrollTop = t.elScrollTop]

PendingSnapEffect(r, m) ==
    IF ~OffsetsChanged(r) /\ r.scrollTop = r.prev.state.scrollTop THEN m
    ELSE IF m.pendingSnap = NoSnap THEN m
    ELSE LET decision == SnapDecision(r, m)
             target == getScrollTarget(r.offsets, m.heights, m.pendingSnap.index)
         IN  IF decision \in {"empty", "converged", "exhausted"}
             THEN [m EXCEPT !.pendingSnap = NoSnap]
             ELSE IF decision = "wait" THEN m
             ELSE LET t == SetElScrollTop(
                              [m EXCEPT !.pendingSnap =
                                  [index |-> m.pendingSnap.index,
                                   remaining |-> m.pendingSnap.remaining - 1,
                                   lastMeasureVersion |-> r.measureVersion],
                                        !.snaps = @ + 1,
                                        !.step.applied = Append(@,
                                  [kind |-> "jump",
                                   epoch |-> r.measureVersion,
                                   last |-> m.pendingSnap.lastMeasureVersion,
                                   before |-> m.consumed.jump,
                                   delta |-> Abs(r.scrollTop - target),
                                   budget |-> m.pendingSnap.remaining]),
                                        !.consumed.jump = r.measureVersion],
                              target)
                  IN  [t EXCEPT !.scrollTop = t.elScrollTop]

\* useEffect, run by every render (toLocalDayValue is a new function each
\* time): step 1 of the initial scroll
InitialTargetEffect(r, m) ==
    IF Len(r.timeline) = 0 \/ m.didInitialScroll THEN m
    ELSE LET targetIndex == findTodayIndex(r.timeline)
         IN  IF targetIndex = -1 THEN m
             ELSE [m EXCEPT !.pendingInitialScroll =
                       [targetIndex |-> targetIndex,
                        yearAnchorIndex |-> findYearAnchorIndex(r.timeline, CurrentYear)]]

InitKinds == {"initial0", "initial1", "initial2"}

\* step 2 of the initial scroll without a cleanup: the frames of the run
\* before stay queued
InitialScrollEffectUncancelled(r, m) ==
    IF ~OffsetsChanged(r) THEN m
    ELSE IF m.pendingInitialScroll = NoInitialScroll \/ m.didInitialScroll THEN m
         ELSE RequestFrame(
                  [m EXCEPT !.pendingInitialScroll = NoInitialScroll],
                  [kind |-> "initial0",
                   targetIndex |-> m.pendingInitialScroll.targetIndex,
                   yearAnchorIndex |-> m.pendingInitialScroll.yearAnchorIndex,
                   offsets |-> r.offsets,
                   measureVersion |-> r.measureVersion,
                   smooth |-> FALSE])

\* useEffect [scrollToIndex, measureVersion]: step 2 of the initial scroll.
\* Its cleanup cancels the frames of the run before.
InitialScrollEffect(r, m) ==
    IF ~OffsetsChanged(r) THEN m
    ELSE LET c == [CancelFrames(m, InitKinds) EXCEPT !.cancelled = TRUE]
         IN  IF c.pendingInitialScroll = NoInitialScroll \/ c.didInitialScroll THEN c
             ELSE RequestFrame(
                      [c EXCEPT !.pendingInitialScroll = NoInitialScroll],
                      [kind |-> "initial0",
                       targetIndex |-> c.pendingInitialScroll.targetIndex,
                       yearAnchorIndex |-> c.pendingInitialScroll.yearAnchorIndex,
                       offsets |-> r.offsets,
                       measureVersion |-> r.measureVersion,
                       smooth |-> FALSE])

\* ------------------------------------------------------------ locale
\* resetMeasurements: the height cache is emptied and the epoch bumped
resetMeasurements(m) ==
    [m EXCEPT !.heights = <<>>,
              !.measureVersion = @ + 1,
              !.step.resets = @ + 1]

\* useLayoutEffect [language, resetMeasurements]
LanguageResetEffect(r, m) ==
    IF r.language = r.prev.state.language THEN m ELSE resetMeasurements(m)

\* useEffect [selectedPlatforms, resetMeasurements]
PlatformResetEffect(r, m) ==
    IF r.selectedPlatforms = r.prev.state.selectedPlatforms THEN m
    ELSE resetMeasurements(m)

\* whether the language anchor effect moves the position in this render
AnchorDecision(r, m) ==
    LET pending == m.pendingLanguageAnchor
    IN  IF Len(r.timeline) = 0 THEN "empty"
        ELSE IF pending.remaining <= 0 THEN "exhausted"
        ELSE IF r.measureVersion = pending.lastMeasureVersion THEN "wait"
        ELSE "snap"

\* useLayoutEffect [measureVersion, offsets, timeline.length, totalHeight,
\* viewportHeight]: the item that was at the viewport centre when the
\* language was toggled is put back there
\* the re-anchor target computed with the item's top edge put at the middle
\* of the viewport, whatever offset was recorded
targetScrollTopCentred(offs, pending) ==
    OffsetAt(offs, pending.index, 0) - ViewportHeight \div 2

\* targetScrollTop of the re-anchor effect: the recorded item's new top plus
\* the recorded offset, less half the viewport
targetScrollTop(offs, pending) ==
    OffsetAt(offs, pending.index, 0) + pending.centerDelta
        - ViewportHeight \div 2

LanguageAnchorEffect(r, m) ==
    IF ~OffsetsChanged(r) THEN m
    ELSE IF m.pendingLanguageAnchor = NoLanguageAnchor THEN m
    ELSE LET pending == m.pendingLanguageAnchor
             decision == AnchorDecision(r, m)
             nextItemTop == OffsetAt(r.offsets, pending.index, 0)
             target == targetScrollTop(r.offsets, pending)
             clamped == ClampScroll(target, TotalHeight(r.offsets),
                                    ViewportHeight)
         IN  IF decision \in {"empty", "exhausted"}
             THEN [m EXCEPT !.pendingLanguageAnchor = NoLanguageAnchor]
             ELSE IF decision = "wait" THEN m
             ELSE LET t == SetElScrollTop(
                              [m EXCEPT !.pendingLanguageAnchor =
                                  [pending EXCEPT
                                      !.lastMeasureVersion = r.measureVersion,
                                      !.remaining = @ - 1],
                                        !.step.stale =
                                  ReadOffsets(m, r.offsets, "anchor").step.stale,
                                        !.step.applied = Append(@,
                                  [kind |-> "anchor",
                                   epoch |-> r.measureVersion,
                                   last |-> pending.lastMeasureVersion,
                                   before |-> m.consumed.anchor,
                                   delta |-> Abs(r.scrollTop - clamped),
                                   budget |-> pending.remaining,
                                   top |-> nextItemTop,
                                   target |-> target,
                                   clamped |-> clamped]),
                                        !.consumed.anchor = r.measureVersion],
                              clamped)
                  IN  [t EXCEPT !.scrollTop = clamped]

\* ------------------------------------------------------------ render
\* One render and its commit, repeated while its effects queued updates.
RECURSIVE Render(_)
Render(s) ==
    LET o == [s EXCEPT !.offsets = OffsetsMemo(s)]
        w == [o EXCEPT !.window = RangeMemo(o)]
        r == IF RangeInputsChanged(w) THEN ReadOffsets(w, w.offsets, "window")
             ELSE w
        m1 == CommitRefs(r)
        l1 == LanguageResetEffect(r, m1)
        l2 == ScrollShiftEffect(r, l1)
        l3 == LanguageAnchorEffect(r, l2)
        m2 == PlatformResetEffect(r, l3)
        m3 == PrevEdgeEffect(r, m2)
        m4 == NextEdgeEffect(r, m3)
        m5 == PendingSnapEffect(r, m4)
        m6 == InitialTargetEffect(r, m5)
        m7 == InitialScrollEffect(r, m6)
        done == [m7 EXCEPT !.prev = Snapshot(r)]
    IN  IF ReactState(done) = done.prev.state THEN done ELSE Render(done)

\* the render React schedules when state updates are queued
RenderIfDirty(s) ==
    IF ReactState(s) = s.prev.state THEN s ELSE Render(s)

\* ------------------------------------------------------------ handlers
\* handleScroll: the scroll listener
handleScroll(s) ==
    LET nextScrollTop == s.elScrollTop
        d == IF nextScrollTop # s.lastScrollTop
             THEN [s EXCEPT !.scrollDirection =
                                IF nextScrollTop > s.lastScrollTop THEN "down" ELSE "up",
                            !.lastScrollTop = nextScrollTop]
             ELSE s
        t == [d EXCEPT !.pendingScrollTop = nextScrollTop, !.scrollEvent = FALSE]
    IN  IF t.scrollRaf THEN t
        ELSE RequestFrame([t EXCEPT !.scrollRaf = TRUE], [kind |-> "scroll"])

TodayKinds == {"today1", "today2"}

\* the interaction handler that leaves the entrance animations on
markUserInteractionAnimated(s) ==
    [CancelFrames(s, TodayKinds) EXCEPT !.userInteracted = TRUE,
                                        !.pendingSnap = NoSnap,
                                        !.todayJumpRaf = FALSE,
                                        !.canAutoLoad = TRUE]

markUserInteraction(s) ==
    [CancelFrames(s, TodayKinds) EXCEPT !.userInteracted = TRUE,
                                        !.pendingSnap = NoSnap,
                                        !.todayJumpRaf = FALSE,
                                        !.animationsEnabled = FALSE,
                                        !.canAutoLoad = TRUE]

\* scrollToIndex of the render whose offsets memo is offs
scrollToIndex(s0, offs, index, smooth) ==
    LET s == ReadOffsets(s0, offs, "jump")
        target == getScrollTarget(offs, s.heights, index)
    IN  IF smooth
        THEN [s EXCEPT !.smoothTarget = IF target = s.elScrollTop THEN NoPx ELSE target]
        ELSE LET t == SetElScrollTop(s, target)
             IN  RenderIfDirty([t EXCEPT !.scrollTop = t.elScrollTop])

\* runSecondStep of the jump whose closure is cb
runSecondStep(s, cb) ==
    [scrollToIndex(s, cb.offsets, cb.targetIndex, cb.smooth)
        EXCEPT !.pendingSnap = [index |-> cb.targetIndex,
                                remaining |-> SCROLL_SNAP_ATTEMPTS,
                                lastMeasureVersion |-> cb.measureVersion],
               !.jumps = @ + 1,
               !.snaps = 0,
               !.consumed.jump = 0]

\* a Today jump that runs its second step at once after the coarse jump
scrollToTodayAtOnce(s, smooth) ==
    LET c == [CancelFrames(s, TodayKinds) EXCEPT !.todayJumpRaf = FALSE]
        cb == [kind |-> "today1",
               targetIndex |-> findTodayIndex(s.timeline),
               yearAnchorIndex |-> findYearAnchorIndex(s.timeline, CurrentYear),
               offsets |-> s.offsets,
               measureVersion |-> s.measureVersion,
               smooth |-> smooth]
    IN  IF Len(s.timeline) = 0 \/ cb.targetIndex = -1 THEN s
        ELSE IF cb.yearAnchorIndex # -1
             THEN runSecondStep(
                      scrollToIndex(c, cb.offsets, cb.yearAnchorIndex, FALSE), cb)
             ELSE runSecondStep(c, cb)

scrollToToday(s, smooth) ==
    LET c == [CancelFrames(s, TodayKinds) EXCEPT !.todayJumpRaf = FALSE]
        cb == [kind |-> "today1",
               targetIndex |-> findTodayIndex(s.timeline),
               yearAnchorIndex |-> findYearAnchorIndex(s.timeline, CurrentYear),
               offsets |-> s.offsets,
               measureVersion |-> s.measureVersion,
               smooth |-> smooth]
    IN  IF Len(s.timeline) = 0 \/ cb.targetIndex = -1 THEN s
        ELSE IF cb.yearAnchorIndex # -1
             THEN RequestFrame(
                      [scrollToIndex(c, cb.offsets, cb.yearAnchorIndex, FALSE)
                          EXCEPT !.todayJumpRaf = TRUE],
                      cb)
             ELSE runSecondStep(c, cb)

\* ------------------------------------------------------------ frame callbacks
RunCallback(s, cb) ==
    CASE cb.kind = "scroll" ->
            [s EXCEPT !.scrollRaf = FALSE,
                      !.scrollTop = IF s.pendingScrollTop # NoPx
                                    THEN s.pendingScrollTop ELSE @]
      [] cb.kind = "measure" ->
            [s EXCEPT !.measureRaf = FALSE, !.measureVersion = @ + 1]
      [] cb.kind = "transition1" -> RequestFrame(s, [kind |-> "transition2"])
      [] cb.kind = "transition2" -> [s EXCEPT !.isTransitioning = FALSE]
      [] cb.kind = "initial0" ->
            IF cb.yearAnchorIndex # -1
            THEN LET t == scrollToIndex([s EXCEPT !.cancelled = FALSE],
                                        cb.offsets, cb.yearAnchorIndex, FALSE)
                 IN  IF t.cancelled THEN t
                     ELSE RequestFrame(t, [cb EXCEPT !.kind = "initial1"])
            ELSE [runSecondStep(s, cb) EXCEPT !.didInitialScroll = TRUE]
      [] cb.kind = "initial1" -> RequestFrame(s, [cb EXCEPT !.kind = "initial2"])
      [] cb.kind = "initial2" ->
            [runSecondStep(s, cb) EXCEPT !.didInitialScroll = TRUE]
      [] cb.kind = "today1" -> RequestFrame(s, [cb EXCEPT !.kind = "today2"])
      [] cb.kind = "today2" ->
            runSecondStep([s EXCEPT !.todayJumpRaf = FALSE], cb)

\* one animation frame: every callback requested before it runs, in the
\* order requested; the updates they queued are rendered afterwards
RECURSIVE RunFrame(_)
RunFrame(s) ==
    IF s.frameNow = <<>> THEN RenderIfDirty(s)
    ELSE RunFrame(RunCallback([s EXCEPT !.frameNow = Tail(@)], Head(s.frameNow)))

\* ------------------------------------------------------------ pages
\* an entry of a year file
Entry(date, display, game) ==
    [date |-> date, displayDate |-> display, games |-> <<game>>]

\* the sequences of at most len entries with dates drawn from dates
RECURSIVE PagesOver(_, _, _, _)
PagesOver(dates, display, game, len) ==
    IF len = 0 THEN {<<>>}
    ELSE PagesOver(dates, display, game, len - 1) \cup
         {Append(page, Entry(d, display, game)) :
             page \in {q \in PagesOver(dates, display, game, len - 1) : Len(q) = len - 1},
             d \in dates}

IsAscending(page) ==
    \A i \in 1..(Len(page) - 1) : DateTime(page[i].date) < DateTime(page[i + 1].date)

\* the pages a year file of the site holds: its own dates in order, each
\* once (scripts-guide: per-year JSON files organized by release date)
YearPages ==
    [year \in SeqToSet(IndexYears) |->
        {page \in PagesOver(DaysOf(year), NoDisplay, year, MaxPage) : IsAscending(page)}]

\* any payload a year file could hold: entries of any date in any order, a
\* date more than once; the displayDate and the game name the file
AnyPages ==
    [year \in SeqToSet(IndexYears) |->
        PagesOver(AllDates, year, year, MaxPage)]

\* a year file of LongPage entries, one a day
LongPages ==
    [year \in SeqToSet(IndexYears) |->
        {[i \in 1..LongPage |-> Entry(year * 100 + i, NoDisplay, year)]}]

\* a year file of ShortPage entries, one a day
ShortPages ==
    [year \in SeqToSet(IndexYears) |->
        {[i \in 1..ShortPage |-> Entry(year * 100 + i, NoDisplay, year)]}]

DatesOf(seq) == {seq[i].date : i \in 1..Len(seq)}

\* the continuation of loadAdjacentYear after a successful fetch
loadSucceeded(s, fetch, entries) ==
    LET shifted == [i \in {j + Len(entries) : j \in DOMAIN s.heights}
                       |-> s.heights[i - Len(entries)]]
        h == IF fetch.direction = "prev" /\ Len(entries) # 0
             THEN [s EXCEPT !.heights = shifted,
                            !.pendingScrollShift = @ + estimateAddedHeight(Len(entries))]
             ELSE s
    IN  [h EXCEPT !.measureVersion = @ + 1,
                  !.timeline = mergeTimeline(@, entries),
                  !.loadedYears = @ \cup {fetch.year},
                  !.error = NULL,
                  !.loadingPrev = IF fetch.direction = "prev" THEN FALSE ELSE @,
                  !.loadingNext = IF fetch.direction = "next" THEN FALSE ELSE @]

\* a failure handler that also drops the measurements
loadFailedResetting(s, fetch) ==
    [s EXCEPT !.error = FailedToLoad(fetch.year),
              !.isTransitioning = FALSE,
              !.heights = <<>>,
              !.measureVersion = @ + 1,
              !.loadingPrev = IF fetch.direction = "prev" THEN FALSE ELSE @,
              !.loadingNext = IF fetch.direction = "next" THEN FALSE ELSE @]

\* ... after a failed fetch
loadFailed(s, fetch) ==
    [s EXCEPT !.error = FailedToLoad(fetch.year),
              !.isTransitioning = FALSE,
              !.loadingPrev = IF fetch.direction = "prev" THEN FALSE ELSE @,
              !.loadingNext = IF fetch.direction = "next" THEN FALSE ELSE @]

RemoveAt(seq, k) == SubSeq(seq, 1, k - 1) \o SubSeq(seq, k + 1, Len(seq))

\* the DOM heights of the items a merge adds: any
WithDomHeights(s, old, dh) ==
    [s EXCEPT !.domHeight =
        [d \in DatesOf(s.timeline) |-> IF d \in DOMAIN old THEN old[d] ELSE dh[d]]]

\* the item the viewport top lies in and where it is on screen, while no
\* jump is under way; NoAnchor otherwise
AnchorNow ==
    LET index == findIndexForOffset(offsets, elScrollTop)
    IN  IF /\ Len(timeline) # 0
           /\ didInitialScroll
           /\ pendingSnap = NoSnap
           /\ ~todayJumpRaf
           /\ smoothTarget = NoPx
        THEN [date |-> timeline[index + 1].date,
              screen |-> OffsetAt(offsets, index, 0) - elScrollTop]
        ELSE NoAnchor

\* toggleLanguage: the language button.  On a loaded timeline the item at
\* the viewport centre is registered as the language anchor.
toggleLanguage(s) ==
    LET viewportCenter == s.scrollTop + ViewportHeight \div 2
        index == findIndexForOffset(s.offsets, viewportCenter)
        itemTop == OffsetAt(s.offsets, index, 0)
        next == IF s.language = "en" THEN "zh" ELSE "en"
    IN  IF Len(s.timeline) = 0 THEN [s EXCEPT !.language = next]
        ELSE [s EXCEPT !.pendingLanguageAnchor =
                           [index |-> index,
                            centerDelta |-> viewportCenter - itemTop,
                            remaining |-> LANGUAGE_ANCHOR_ATTEMPTS,
                            lastMeasureVersion |-> s.measureVersion],
                       !.step.registered = TRUE,
                       !.step.stale = ReadOffsets(s, s.offsets, "anchor").step.stale,
                       !.consumed.anchor = 0,
                       !.language = next]

\* togglePlatform: a platform filter button
togglePlatform(s, platform) ==
    [s EXCEPT !.selectedPlatforms = IF platform \in @ THEN @ \ {platform}
                                    ELSE @ \cup {platform}]

\* the continuation of loadInitial after both fetches succeeded; active is
\* false once the effect was cleaned up
loadInitialArrived(s, active, entries) ==
    IF active
    THEN [s EXCEPT !.heights = <<>>,
                   !.measureVersion = @ + 1,
                   !.availableYears = IndexYears,
                   !.loadedYears = {InitialYear},
                   !.timeline = mergeTimeline(<<>>, entries),
                   !.error = NULL]
    ELSE s

\* ------------------------------------------------------------ spacers
\* what the last render reserves above and below the materialized items
topSpacer ==
    IF Len(timeline) # 0 THEN OffsetAt(offsets, window.start, 0) ELSE 0

\* the end offset read one entry early
endOffsetOfLastItem ==
    IF window.end >= 0 THEN OffsetAt(offsets, window.end, topSpacer)
    ELSE topSpacer

endOffset ==
    IF window.end >= 0 THEN OffsetAt(offsets, window.end + 1, topSpacer)
    ELSE topSpacer

bottomSpacer ==
    IF Len(timeline) # 0 THEN Max2(0, TotalHeight(offsets) - endOffset) ELSE 0

\* ------------------------------------------------------------ actions
\* loadInitial resolved: index.json and the initial year's file arrived
LoadInitialOk(Pages, Hs) ==
    /\ initialLoad = "pending"
    /\ \E entries \in Pages[InitialYear] :
          LET s1 == [loadInitialArrived(Cur, TRUE, entries)
                        EXCEPT !.initialLoad = "done"]
          IN  \E dh \in [DatesOf(s1.timeline) -> Hs] :
                  Install(Render(WithDomHeights(s1, domHeight, dh)))

\* what the two fetches of loadInitial can answer when it fails: the index
\* request is refused; the index is an empty list; it lists only names that
\* Number() does not read as a finite year; the initial page is refused.  A
\* listed name is modelled by the year it reads as, NoYear when it reads
\* as none.
FailingAnswers ==
    {[indexOk |-> FALSE, yearFiles |-> <<>>, pageOk |-> FALSE],
     [indexOk |-> TRUE, yearFiles |-> <<>>, pageOk |-> FALSE],
     [indexOk |-> TRUE, yearFiles |-> <<NoYear, NoYear>>, pageOk |-> FALSE],
     [indexOk |-> TRUE, yearFiles |-> <<NoYear>> \o IndexYears, pageOk |-> FALSE]}

\* the message of the error loadInitial throws on these answers, NULL when
\* it throws none
loadInitialError(a) ==
    LET years == SelectSeq(a.yearFiles, LAMBDA year : year # NoYear)
    IN  IF ~a.indexOk THEN "Failed to load release index."
        ELSE IF Len(a.yearFiles) = 0 THEN "Release index is empty."
        ELSE IF Len(years) = 0 THEN "Release index is empty."
        ELSE IF ~a.pageOk THEN FailedToLoad(InitialYear)
        ELSE NULL

\* a catch that records nothing
loadInitialFailedSilently(s, message) ==
    [s EXCEPT !.initialLoad = "failed"]

\* the catch of loadInitial
loadInitialFailed(s, message) ==
    [s EXCEPT !.error = message, !.initialLoad = "failed"]

\* const showError = Boolean(error) && !timeline.length
showError ==
    error # NULL /\ Len(timeline) = 0

\* loadInitial threw: the index or the initial page could not be fetched
LoadInitialFail ==
    /\ initialLoad = "pending"
    /\ \E a \in FailingAnswers :
          /\ loadInitialError(a) # NULL
          /\ Install(Render(loadInitialFailed(Cur, loadInitialError(a))))

\* the fetch inflight[k] resolved with a page
LoadOk(Pages, Hs) ==
    \E k \in 1..Len(inflight) :
        \E entries \in Pages[inflight[k].year] :
            LET s0 == loadSucceeded(
                          [Cur EXCEPT !.inflight = RemoveAt(@, k),
                                      !.step.arrived =
                                          [direction |-> inflight[k].direction,
                                           year |-> inflight[k].year,
                                           entries |-> entries,
                                           others |-> RemoveAt(inflight, k)]],
                          inflight[k], entries)
                s1 == [s0 EXCEPT !.mergedHeights = s0.heights,
                                 !.anchor = IF inflight[k].direction = "prev"
                                            THEN AnchorNow ELSE @]
            IN  \E dh \in [DatesOf(s1.timeline) \ DOMAIN domHeight -> Hs] :
                    Install(Render(WithDomHeights(s1, domHeight, dh)))

\* the fetch inflight[k] was rejected
LoadFail ==
    \E k \in 1..Len(inflight) :
        Install(Render(loadFailed([Cur EXCEPT !.inflight = RemoveAt(@, k),
                                              !.failed = ~@],
                                  inflight[k])))

\* the scroll range of the element
MaxScrollTop == Max2(0, TotalHeight(offsets) - ViewportHeight)

\* the positions a user scrolls the element to: both ends
ScrollStops == {0, MaxScrollTop}

\* the user moves the scroll position (keyboard, scrollbar, wheel, touch);
\* the element fires its scroll event
UserScroll ==
    /\ Len(timeline) # 0
    /\ \E v \in ScrollStops :
          /\ v # elScrollTop
          /\ Install(handleScroll([Cur EXCEPT !.elScrollTop = v,
                                              !.smoothTarget = NoPx,
                                              !.anchor = NoAnchor]))

\* the scroll event of a scroll position the program set
ScrollEvent ==
    /\ scrollEvent
    /\ Install(handleScroll(Cur))

\* an animated scrollTo reaches its target
SmoothScroll ==
    /\ smoothTarget # NoPx
    /\ Install(handleScroll([Cur EXCEPT !.elScrollTop = smoothTarget,
                                        !.smoothTarget = NoPx,
                                        !.anchor = NoAnchor]))

\* handleWheel
Wheel ==
    \E direction \in {"up", "down"} :
        Install(RenderIfDirty([markUserInteraction(Cur)
                                  EXCEPT !.scrollDirection = direction]))

\* touchstart / pointerdown
PointerDown ==
    /\ ~canAutoLoad \/ pendingSnap # NoSnap \/ todayJumpRaf
    /\ Install(RenderIfDirty(markUserInteraction(Cur)))

\* the language button; the text of every item, and with it its height,
\* becomes that of the other language
ToggleLanguage(Hs) ==
    \E h \in Hs :
        LET s0 == [Cur EXCEPT !.domHeight = [d \in DOMAIN domHeight |-> h]]
        IN  Install(Render(toggleLanguage(s0)))

\* a platform filter button; the games shown of every item change
TogglePlatform(Hs) ==
    \E platform \in Platforms :
        \E h \in Hs :
            LET s0 == [Cur EXCEPT !.domHeight = [d \in DOMAIN domHeight |-> h]]
            IN  Install(Render(togglePlatform(s0, platform)))

\* the Today button
ClickToday ==
    /\ Len(timeline) # 0
    /\ jumps < MaxJumps
    /\ Install(scrollToToday([Cur EXCEPT !.anchor = NoAnchor], TRUE))

\* the next animation frame
Frame ==
    /\ rafQueue # <<>>
    /\ Install(RunFrame([Cur EXCEPT !.frameNow = rafQueue, !.rafQueue = <<>>]))

\* the layout of a rendered item changes and the component re-renders
\* (translations arrive, the window is resized)
Reflow(Hs) ==
    \E d \in DOMAIN domHeight :
        \E h \in Hs \ {domHeight[d]} :
            Install(Render([Cur EXCEPT !.domHeight[d] = h]))

\* ------------------------------------------------------------ Virtuoso variant
\* The variant of the component that renders the list with react-virtuoso.
\* Its groups carry games and showcases; its dates are the first ShortPage
\* days of a year.
VDaysOf(year) == {year * 100 + d : d \in 1..ShortPage}

Group(date, games, showcases) ==
    [date |-> date, games |-> games, showcases |-> showcases]

\* sortGroupsByDate: a sorted copy, by new Date(date).getTime()
sortGroupsByDate(groups) == SortByDate(groups)

\* a merge that leaves the groups in the order of the Map
mergeShowcaseUnsorted(groups, showcaseGroups) ==
    LET RECURSIVE Merge(_, _)
        Merge(dateMap, rest) ==
            IF rest = <<>> THEN dateMap
            ELSE LET sg == Head(rest)
                     i == IndexOfDate(dateMap, sg.date)
                 IN  Merge(IF i # 0
                           THEN [dateMap EXCEPT ![i].showcases = @ \o sg.showcases]
                           ELSE Append(dateMap, Group(sg.date, <<>>, sg.showcases)),
                           Tail(rest))
    IN  Merge(GroupPrev(<<>>, groups), showcaseGroups)

\* mergeShowcaseIntoTimeline: the groups keyed by date, the showcases pushed
\* onto the group of their date or onto a new group, sorted by date
mergeShowcaseIntoTimeline(groups, showcaseGroups) ==
    sortGroupsByDate(mergeShowcaseUnsorted(groups, showcaseGroups))

\* the ascending sequences of at most len groups made by make over dates
RECURSIVE GroupsOver(_, _, _, _)
GroupsOver(dates, games, showcases, len) ==
    IF len = 0 THEN {<<>>}
    ELSE GroupsOver(dates, games, showcases, len - 1) \cup
         UNION {{Append(page, Group(d, games, showcases)) :
                    d \in {e \in dates : \A k \in 1..Len(page) : page[k].date < e}} :
                page \in {q \in GroupsOver(dates, games, showcases, len - 1) :
                             Len(q) = len - 1}}

\* /data/game-release/YYYY.json and /data/showcase/YYYY.json: groups of the
\* year's own dates, each once, in date order
ReleasePages ==
    [year \in SeqToSet(IndexYears) |->
        GroupsOver(VDaysOf(year), <<year>>, <<>>, ShortPage)]

ShowcasePages ==
    [year \in {CurrentYear, CurrentYear + 1} |->
        GroupsOver(VDaysOf(year), <<>>, <<year>>, 1)]

\* findTargetArrayIndexForToday: the loop over the timeline and the choice
\* between the neighbours of today
RECURSIVE ScanTarget(_, _, _)
ScanTarget(tl, i, found) ==
    IF i >= Len(tl) THEN found
    ELSE LET itemValue == DateTime(tl[i + 1].date)
         IN  IF itemValue = DateTime(Today)
             THEN [found EXCEPT !.target = i]
             ELSE IF itemValue < DateTime(Today)
                  THEN ScanTarget(tl, i + 1, [found EXCEPT !.prev = i])
                  ELSE IF found.next = -1
                       THEN ScanTarget(tl, i + 1, [found EXCEPT !.next = i])
                       ELSE ScanTarget(tl, i + 1, found)

findTargetArrayIndexForToday(tl) ==
    IF Len(tl) = 0 THEN -1
    ELSE LET scan == ScanTarget(tl, 0, [target |-> -1, prev |-> -1, next |-> -1])
         IN  IF scan.target # -1 THEN scan.target
             ELSE IF scan.prev # -1 /\ scan.next # -1
                  THEN LET prevDiff == DateTime(Today) - DateTime(tl[scan.prev + 1].date)
                           nextDiff == DateTime(tl[scan.next + 1].date) - DateTime(Today)
                       IN  IF prevDiff <= nextDiff THEN scan.prev ELSE scan.next
                  ELSE IF scan.prev # -1 THEN scan.prev
                       ELSE scan.next

\* the render after a state update of the variant: the effect
\* [findTargetArrayIndexForToday, timeline.length] is cleaned up and runs
\* again when the timeline changed
VInitialScrollEffect(old, v) ==
    IF v.data = old.data THEN v
    ELSE LET c == [v EXCEPT !.timers =
                       [k \in DOMAIN @ |-> [@[k] EXCEPT !.cancelled = TRUE]]]
         IN  IF Len(c.data) = 0 \/ c.didInitialScrollRef THEN c
             ELSE LET targetIndex == findTargetArrayIndexForToday(c.data)
                      d == [c EXCEPT !.didInitialScrollRef = TRUE]
                  IN  IF targetIndex >= 0
                      THEN [d EXCEPT !.timers =
                               Append(@, [targetIndex |-> targetIndex,
                                          cancelled |-> FALSE])]
                      ELSE [d EXCEPT !.canAutoLoad = TRUE]

VRender(v) == VInitialScrollEffect(virtuoso, v)

VInstall(v) ==
    /\ virtuoso' = v
    /\ UNCHANGED <<program, table, answer, pinned>>

\* loadInitial of the variant resolved: the index, the initial year's page
\* and the showcases of the current and the next year arrived
VLoadInitialOk ==
    /\ virtuoso.initialLoad = "pending"
    /\ \E entries \in ReleasePages[InitialYear] :
       \E current \in ShowcasePages[CurrentYear] :
       \E following \in ShowcasePages[CurrentYear + 1] :
          VInstall(VRender(
              [virtuoso EXCEPT
                  !.initialLoad = "done",
                  !.availableYears = IndexYears,
                  !.loadedYears = {InitialYear},
                  !.data = mergeShowcaseIntoTimeline(entries, current \o following),
                  !.firstItemIndex = INITIAL_FIRST_ITEM_INDEX,
                  !.error = NULL]))

\* the timeout of the initial scroll effect, 100 ms after it was set
VTimeout ==
    /\ virtuoso.timers # <<>>
    /\ LET timer == Head(virtuoso.timers)
           v == [virtuoso EXCEPT !.timers = Tail(@)]
       IN  VInstall(IF timer.cancelled THEN v
                    ELSE [v EXCEPT !.scrolledTo = timer.targetIndex,
                                   !.canAutoLoad = TRUE,
                                   !.initialJumps = @ + 1])

\* markUserInteraction of the variant: wheel, touch start, pointer down
VInteract ==
    /\ ~virtuoso.canAutoLoad
    /\ VInstall([virtuoso EXCEPT !.canAutoLoad = TRUE])

\* loadPrev (the button above the list) and loadNext (endReached) up to
\* their await
loadPrev(v) ==
    LET prevYear == prevYearOf(v.availableYears, v.loadedYears)
    IN  IF ~v.canAutoLoad \/ prevYear = NoYear \/ prevYear \in v.loadedYears
           \/ v.loadingPrevRef
        THEN v
        ELSE [v EXCEPT !.loadingPrevRef = TRUE,
                       !.inflight = @ \cup {[direction |-> "prev", year |-> prevYear]}]

loadNext(v) ==
    LET nextYear == nextYearOf(v.availableYears, v.loadedYears)
    IN  IF ~v.canAutoLoad \/ nextYear = NoYear \/ nextYear \in v.loadedYears
           \/ v.loadingNextRef
        THEN v
        ELSE [v EXCEPT !.loadingNextRef = TRUE,
                       !.inflight = @ \cup {[direction |-> "next", year |-> nextYear]}]

VLoadPrev ==
    /\ loadPrev(virtuoso) # virtuoso
    /\ VInstall(loadPrev(virtuoso))

VLoadNext ==
    /\ loadNext(virtuoso) # virtuoso
    /\ VInstall(loadNext(virtuoso))

\* the groups of a page whose date the timeline does not hold yet
newItemsOf(v, entries) ==
    SelectSeq(entries, LAMBDA group : group.date \notin DatesOf(v.data))

\* the continuations of loadPrev and loadNext after a successful fetch
loadPrevArrived(v, fetch, entries) ==
    LET newItems == newItemsOf(v, entries)
    IN  [v EXCEPT !.data = IF newItems # <<>> THEN newItems \o @ ELSE @,
                  !.firstItemIndex = @ - Len(newItems),
                  !.loadedYears = @ \cup {fetch.year},
                  !.error = NULL,
                  !.loadingPrevRef = FALSE]

loadNextArrived(v, fetch, entries) ==
    LET newItems == newItemsOf(v, entries)
    IN  [v EXCEPT !.data = IF newItems # <<>> THEN @ \o newItems ELSE @,
                  !.loadedYears = @ \cup {fetch.year},
                  !.error = NULL,
                  !.loadingNextRef = FALSE]

VLoadOk ==
    \E fetch \in virtuoso.inflight :
        \E entries \in ReleasePages[fetch.year] :
            LET v == [virtuoso EXCEPT !.inflight = @ \ {fetch}]
            IN  VInstall(VRender(IF fetch.direction = "prev"
                                 THEN loadPrevArrived(v, fetch, entries)
                                 ELSE loadNextArrived(v, fetch, entries)))

\* Virtuoso: the variant from its initial load on
NextVirtuoso ==
    \/ VLoadInitialOk
    \/ VTimeout
    \/ VInteract
    \/ VLoadPrev
    \/ VLoadNext
    \/ VLoadOk

SpecVirtuoso == Init /\ [][NextVirtuoso]_vars

\* an index.json that lists two years before the current one
DeepIndex == <<2023, 2024, 2025>>

\* the pages of the years of DeepIndex
DeepPages ==
    [year \in SeqToSet(DeepIndex) |->
        {page \in PagesOver(DaysOf(year), NoDisplay, year, MaxPage) : IsAscending(page)}]

\* loadInitial resolved with DeepIndex as the content of index.json
LoadInitialDeep(Hs) ==
    /\ initialLoad = "pending"
    /\ \E entries \in DeepPages[InitialYear] :
          LET s1 == [loadInitialArrived(Cur, TRUE, entries)
                        EXCEPT !.initialLoad = "done",
                               !.availableYears = DeepIndex]
          IN  \E dh \in [DatesOf(s1.timeline) -> Hs] :
                  Install(Render(WithDomHeights(s1, domHeight, dh)))

\* Chain: two older pages to load, one after the other
NextChain ==
    \/ LoadInitialDeep(TallHeight)
    \/ LoadOk(DeepPages, TallHeight)
    \/ UserScroll
    \/ ScrollEvent
    \/ Wheel
    \/ Frame

SpecChain == Init /\ [][NextChain]_vars

\* Pagination: the pages of the site, every item as tall as TallHeight,
\* fetches that fail
Next ==
    \/ LoadInitialOk(YearPages, TallHeight)
    \/ LoadInitialFail
    \/ LoadOk(YearPages, TallHeight)
    \/ LoadFail
    \/ UserScroll
    \/ ScrollEvent
    \/ Wheel
    \/ PointerDown
    \/ Frame

Spec == Init /\ [][Next]_vars

\* Merging: any payload, no failure
NextMerge ==
    \/ LoadInitialOk(AnyPages, TallHeight)
    \/ LoadOk(AnyPages, TallHeight)
    \/ UserScroll
    \/ ScrollEvent
    \/ Wheel
    \/ Frame

SpecMerge == Init /\ [][NextMerge]_vars

\* Jumping: the initial jump and the Today button on the initial page,
\* animated scrolls, items that change height; no other user input
NextJump ==
    \/ LoadInitialOk(YearPages, DomHeights)
    \/ ScrollEvent
    \/ SmoothScroll
    \/ ClickToday
    \/ Reflow(DomHeights)
    \/ Frame

SpecJump == Init /\ [][NextJump]_vars

\* the component unmounts: the cleanups of its effects run (loadInitial is
\* no longer active, the listeners are removed, the scroll frame and the
\* frames of the initial scroll are cancelled)
Unmount ==
    /\ mounted
    /\ Assign([CancelFrames(Cur, {"scroll"} \cup InitKinds)
                  EXCEPT !.mounted = FALSE, !.scrollRaf = FALSE])

\* loadInitial settles after the unmount
LateLoadInitial(Pages) ==
    /\ initialLoad = "pending"
    /\ \E entries \in Pages[InitialYear] :
          InstallDetached([loadInitialArrived(Cur, mounted, entries)
                              EXCEPT !.initialLoad = "done"])

\* the fetch inflight[k] resolves with a page after the unmount
LateLoadOk(Pages) ==
    \E k \in 1..Len(inflight) :
        \E entries \in Pages[inflight[k].year] :
            LET s0 == loadSucceeded([Cur EXCEPT !.inflight = RemoveAt(@, k)],
                                    inflight[k], entries)
            IN  InstallDetached(s0)

\* the fetch inflight[k] is rejected after the unmount
LateLoadFail ==
    \E k \in 1..Len(inflight) :
        LET s0 == loadFailed([Cur EXCEPT !.inflight = RemoveAt(@, k)],
                             inflight[k])
        IN  InstallDetached(s0)

\* Teardown: pagination, with an unmount at any moment and the fetches
\* that were in flight settling after it
NextTeardown ==
    \/ LoadInitialOk(YearPages, TallHeight)
    \/ LoadOk(YearPages, TallHeight)
    \/ UserScroll
    \/ ScrollEvent
    \/ Wheel
    \/ Frame
    \/ Unmount
    \/ LateLoadInitial(YearPages)
    \/ LateLoadOk(YearPages)
    \/ LateLoadFail

SpecTeardown == Init /\ [][NextTeardown]_vars

\* Today: the Today button pressed again and again on the initial page, with
\* pointer interactions in between
NextToday ==
    \/ LoadInitialOk(YearPages, DomHeights)
    \/ ScrollEvent
    \/ SmoothScroll
    \/ ClickToday
    \/ PointerDown
    \/ Frame

SpecToday == Init /\ [][NextToday]_vars

\* Measuring: one short page whose items change their layout again and again
\* between animation frames
NextMeasure ==
    \/ LoadInitialOk(ShortPages, ShortHeight)
    \/ Reflow(DomHeights)
    \/ Frame

\* the browser runs the callbacks of requestAnimationFrame: a frame that has
\* callbacks waiting comes.  This is the weak fairness of Frame with the
\* condition that enables Frame written out
FrameFairness ==
    <>[](rafQueue # <<>> /\ mounted /\ measureVersion < MaxVersion)
        => []<><<Frame>>_vars

SpecMeasure == Init /\ [][NextMeasure]_vars /\ FrameFairness

\* Anomaly: a short page whose items are at times not laid out, so that
\* their node reports the height 0
NextAnomaly ==
    \/ LoadInitialOk(ShortPages, AnyHeights)
    \/ Reflow(AnyHeights)
    \/ Frame

SpecAnomaly == Init /\ [][NextAnomaly]_vars

\* Locale: one long page, the language and the platform filters toggled
\* while the list is scrolled, every item as tall as the language and the
\* filters make it
NextLocale ==
    \/ LoadInitialOk(LongPages, TallHeight)
    \/ LoadInitialOk(LongPages, ShortHeight)
    \/ ToggleLanguage(DomHeights)
    \/ TogglePlatform(DomHeights)
    \/ UserScroll
    \/ ScrollEvent
    \/ Frame

SpecLocale == Init /\ [][NextLocale]_vars

\* an observer notes the window of one state: what the WindowSelector was
\* given and what it selected
Observe ==
    /\ pinned = NoPin
    /\ Len(timeline) # 0
    /\ pinned' = [scrollTop |-> scrollTop, count |-> Len(timeline),
                  heights |-> heights, offsets |-> offsets, range |-> window,
                  direction |-> scrollDirection]
    /\ UNCHANGED <<program, table, answer, virtuoso>>

\* Windowing: one page longer than the overscanned viewport, its items all
\* taller or all shorter than the estimate, scrolled from end to end
NextWindow ==
    \/ LoadInitialOk(LongPages, TallHeight)
    \/ LoadInitialOk(LongPages, ShortHeight)
    \/ UserScroll
    \/ ScrollEvent
    \/ Frame
    \/ Observe

SpecWindow == Init /\ [][NextWindow]_vars

\* ------------------------------------------------------------ tables
\* The offsets memo, findIndexForOffset, visibleRange and getScrollTarget as
\* functions of an item count and a height cache: table is any cache of up
\* to MaxItems items, answer the result of the last call.
TableOffsets == ComputeOffsets(table.count, table.hts)

\* the offsets next to an entry of the table, before the first and past the
\* last
OffsetProbes == {o + d : o \in SeqToSet(TableOffsets), d \in {-1, 0, 1}}

\* the scroll positions at which an end of the viewport, overscanned or not,
\* is next to an entry of the table
TopProbes ==
    {0} \cup {t \in {o + OVERSCAN_PX + d : o \in SeqToSet(TableOffsets), d \in {-1, 0, 1}}
                    \cup {o - ViewportHeight - OVERSCAN_PX + d :
                             o \in SeqToSet(TableOffsets), d \in {-1, 0, 1}}
                    \cup {o + d : o \in SeqToSet(TableOffsets), d \in {-1, 0, 1}}
                    \cup {o - ViewportHeight + d :
                             o \in SeqToSet(TableOffsets), d \in {-1, 0, 1}} : t >= 0}

\* timeline.length grows by one
GrowTable ==
    /\ table.count < MaxItems
    /\ table' = [table EXCEPT !.count = @ + 1]
    /\ answer' = NoAnswer
    /\ UNCHANGED <<program, pinned, virtuoso>>

\* heightsRef.current.set(index, height)
MeasureTable ==
    /\ \E index \in 0..(table.count - 1) :
          \E height \in DomHeights :
              /\ index \notin DOMAIN table.hts
              /\ table' = [table EXCEPT !.hts = HeightSet(@, index, height)]
    /\ answer' = NoAnswer
    /\ UNCHANGED <<program, pinned, virtuoso>>

\* findIndexForOffset(offset)
LookupIndex ==
    /\ \E offset \in OffsetProbes :
          answer' = [NoAnswer EXCEPT !.kind = "index",
                                     !.input = offset,
                                     !.index = findIndexForOffset(TableOffsets, offset)]
    /\ UNCHANGED <<table, program, pinned, virtuoso>>

\* visibleRange at scrollTop = top
SelectRange ==
    /\ \E top \in TopProbes :
          LET range == visibleRange(table.count, top, ViewportHeight, TableOffsets)
          IN  answer' = [NoAnswer EXCEPT !.kind = "range",
                                         !.input = top,
                                         !.start = range.start,
                                         !.end = range.end]
    /\ UNCHANGED <<table, program, pinned, virtuoso>>

\* getScrollTarget(index).clamped, of the indices of the table and of the
\* two next to them
CenterTarget ==
    /\ table.count # 0
    /\ \E index \in (-1)..table.count :
          answer' = [NoAnswer EXCEPT !.kind = "target",
                                     !.input = index,
                                     !.clamped = getScrollTarget(TableOffsets, table.hts, index)]
    /\ UNCHANGED <<table, program, pinned, virtuoso>>

\* the dates of the timelines searched for today: today, the day after,
\* and days of the year before and of the year after, two of them as far
\* from today as each other
TodayDates == {202401, 202402, Today, Today + 1, 202601}

\* the timelines of at most MaxDates items in ascending order of date
TodayTimelines == GroupsOver(TodayDates, <<1>>, <<>>, MaxDates)

\* the target of a jump to today, as scrollToToday and the initial scroll
\* compute it and as the variant's findTargetArrayIndexForToday does
FindToday ==
    /\ \E groups \in TodayTimelines :
          LET tl == [k \in 1..Len(groups) |-> Entry(groups[k].date, groups[k].date, 1)]
          IN  answer' = [NoAnswer EXCEPT !.kind = "today",
                                         !.dates = [k \in 1..Len(groups) |-> groups[k].date],
                                         !.index = findTodayIndex(tl),
                                         !.variant = findTargetArrayIndexForToday(groups)]
    /\ UNCHANGED <<table, program, pinned, virtuoso>>

NextTable ==
    \/ GrowTable
    \/ MeasureTable
    \/ LookupIndex
    \/ SelectRange
    \/ CenterTarget
    \/ FindToday

SpecTable == Init /\ [][NextTable]_vars

\* ------------------------------------------------------------ properties
FetchesOf(direction) ==
    {k \in 1..Len(inflight) : inflight[k].direction = direction}

\* C1: for each direction, older and newer, at most one page fetch is in
\* flight in every reachable state, whatever the interleaving of scroll
\* events, frames, renders and fetch completions.
OneFetchPerDirection ==
    /\ Cardinality(FetchesOf("prev")) <= 1
    /\ Cardinality(FetchesOf("next")) <= 1

\* C1 witness: an older fetch is in flight while the rendered position, the
\* direction and the auto-load switch still satisfy the older-edge trigger,
\* and a scroll event that arrived meanwhile is waiting for its frame.
EdgeCrossedWhileFetching ==
    /\ Cardinality(FetchesOf("prev")) = 1
    /\ loadingPrev
    /\ canAutoLoad
    /\ scrollTop <= SCROLL_THRESHOLD
    /\ scrollDirection = "up"
    /\ prevYearOf(availableYears, loadedYears) # NoYear
    /\ scrollRaf

\* every materialized item is measured, the offsets are those of the stored
\* heights, the rendered position is the element's and nothing is scheduled
\* that could change the epoch or the position
Settled ==
    LET range == visibleRange(Len(timeline), scrollTop, ViewportHeight, offsets)
    IN  /\ rafQueue = <<>>
        /\ ~scrollEvent
        /\ smoothTarget = NoPx
        /\ pendingScrollShift = 0
        /\ scrollTop = elScrollTop
        /\ offsets = ComputeOffsets(Len(timeline), heights)
        /\ \A i \in range.start..range.end :
              /\ i \in DOMAIN heights
              /\ heights[i] = domHeight[timeline[i + 1].date]

\* where the anchor item is on screen now
AnchorScreen ==
    OffsetAt(offsets, IndexOfDate(timeline, anchor.date) - 1, 0) - elScrollTop

\* C2: after an older page is prepended, once the new items are measured
\* and nothing further is pending, the item that was at the viewport top
\* before the prepend is within 2 px of the screen position it had then.
AnchorKeptAfterPrepend ==
    (anchor # NoAnchor /\ Settled) => Abs(AnchorScreen - anchor.screen) <= 2

\* the step is the handling of a failed page fetch
FetchFailed == failed' # failed

\* C6: the handling of a failed fetch (recording the error, clearing the
\* in-flight flag) starts no fetch: the failed fetch leaves the fetches in
\* flight and no other joins them in that step.
NoFetchOnFailure ==
    [][FetchFailed => Len(inflight') = Len(inflight) - 1]_vars

\* C8: handling a failed older- or newer-page fetch leaves the item
\* sequence, the loaded page keys, the stored heights, the epoch, the
\* offsets and the scroll offset (rendered and of the element) as they were.
FailureKeepsContent ==
    [][FetchFailed =>
          /\ timeline' = timeline
          /\ loadedYears' = loadedYears
          /\ availableYears' = availableYears
          /\ heights' = heights
          /\ measureVersion' = measureVersion
          /\ offsets' = offsets
          /\ scrollTop' = scrollTop
          /\ elScrollTop' = elScrollTop]_vars

\* C8 witness: a fetch has failed with items loaded and measured and the
\* list scrolled away from the top: the error is recorded.
FailedWithContent ==
    /\ failed
    /\ error # NULL
    /\ Len(timeline) >= 2
    /\ DOMAIN heights # {}
    /\ scrollTop > 0

\* a pending jump has spent snaps of its budget, never more than it had
SnapBudget ==
    /\ snaps <= SCROLL_SNAP_ATTEMPTS
    /\ pendingSnap # NoSnap =>
          /\ pendingSnap.remaining >= 0
          /\ pendingSnap.remaining = SCROLL_SNAP_ATTEMPTS - snaps

\* a step that processes an epoch change while a jump is pending, and
\* registers no other jump, discards the jump or takes one from its budget
SnapProgress ==
    (/\ pendingSnap # NoSnap
     /\ measureVersion' # measureVersion
     /\ jumps' = jumps)
        => \/ pendingSnap' = NoSnap
           \/ pendingSnap'.remaining < pendingSnap.remaining

OlderMerge ==
    /\ loadedYears # {}
    /\ loadedYears' # loadedYears
    /\ SetMin(loadedYears') < SetMin(loadedYears)

NewerMerge ==
    /\ loadedYears # {}
    /\ loadedYears' # loadedYears
    /\ SetMax(loadedYears') > SetMax(loadedYears)

\* the item of this date
ItemOf(seq, date) == seq[IndexOfDate(seq, date)]

\* C3: after an older-page merge every height stored before it is stored at
\* the new index of the same date key, whatever the page held.
HeightsFollowKeys ==
    [][OlderMerge =>
          \A i \in DOMAIN heights :
              i < Len(timeline) =>
                  LET j == IndexOfDate(timeline', timeline[i + 1].date) - 1
                  IN  /\ j \in DOMAIN mergedHeights'
                      /\ mergedHeights'[j] = heights[i]]_vars

\* C4: in every reachable state no two items of the sequence have the same
\* date key.
NoDuplicateKeys ==
    \A i, j \in 1..Len(timeline) :
        timeline[i].date = timeline[j].date => i = j

\* C4 witness: a page holding a key already present has been merged (the
\* one item of that key carries the games of both).
KeyMergedTwice ==
    \E i \in 1..Len(timeline) : Len(timeline[i].games) >= 2

\* C5 as claimed: an item whose key is in the sequence before and after a
\* step is the same item, games list and display date, before and after.
DuplicateDropped ==
    [][\A d \in DatesOf(timeline) \cap DatesOf(timeline') :
          ItemOf(timeline', d) = ItemOf(timeline, d)]_vars

\* C5 amended: an item whose key is in the sequence before and after a step
\* keeps its display date, and its games list before the step is the
\* beginning of its games list after it: the incoming games are appended.
DuplicateAppended ==
    [][\A d \in DatesOf(timeline) \cap DatesOf(timeline') :
          LET old == ItemOf(timeline, d)
              new == ItemOf(timeline', d)
          IN  /\ new.displayDate = old.displayDate
              /\ Len(new.games) >= Len(old.games)
              /\ SubSeq(new.games, 1, Len(old.games)) = old.games]_vars

\* C5 witness: an item carries the games of two different pages and the
\* display date of the first.
GamesOfTwoPages ==
    \E i \in 1..Len(timeline) :
        /\ Len(timeline[i].games) >= 2
        /\ timeline[i].games[1] # timeline[i].games[2]
        /\ timeline[i].displayDate = timeline[i].games[1]

\* the dates a step adds to the sequence
AddedDates == DatesOf(timeline') \ DatesOf(timeline)

OffsetsShape ==
    /\ Len(offsets) = Len(timeline) + 1
    /\ offsets[1] = 0
    /\ \A i \in 1..(Len(offsets) - 1) : offsets[i] <= offsets[i + 1]

\* C10 witness: offsets of several items, one of them measured at a height
\* other than the estimate.
OffsetsOfMeasuredItems ==
    /\ Len(timeline) >= 2
    /\ \E i \in DOMAIN heights : heights[i] # ESTIMATED_ITEM_HEIGHT
    /\ offsets = ComputeOffsets(Len(timeline), heights)

\* the greatest index i of the table with offs[i] <= x, clamped to
\* [0, count - 1]; -1 stands for "no such index" before the clamp
GreatestAtMost(offs, x, count) ==
    LET below == {i \in 0..(Len(offs) - 1) : offs[i + 1] <= x}
        greatest == IF below = {} THEN -1 ELSE SetMax(below)
    IN  Max2(0, Min2(count - 1, greatest))

\* C11: for every offsets table and every offset x, findIndexForOffset(x) is
\* the greatest i with offsets[i] <= x, clamped to [0, count - 1]; the index
\* of offset 0 is 0 and, for a non-empty table, the index of the total
\* height is count - 1.
IndexIsGreatestAtMost ==
    /\ answer.kind = "index" =>
          answer.index = GreatestAtMost(TableOffsets, answer.input, table.count)
    /\ findIndexForOffset(TableOffsets, 0) = 0
    /\ table.count > 0 =>
          findIndexForOffset(TableOffsets, TotalHeight(TableOffsets)) = table.count - 1

\* C11 witness: a table of measured and unmeasured items was searched for
\* the exact offset of an item that is neither the first nor the last.
InnerOffsetFound ==
    /\ answer.kind = "index"
    /\ table.count >= 3
    /\ DOMAIN table.hts # {}
    /\ DOMAIN table.hts # 0..(table.count - 1)
    /\ answer.index \in 1..(table.count - 2)
    /\ answer.input = TableOffsets[answer.index + 1]

\* C12: for a non-empty sequence the range starts at the index of
\* max(0, scrollTop - overscan) and ends at the index of scrollTop +
\* viewportHeight + overscan, at most count - 1; an empty sequence gives
\* start 0 and end -1.
RangeIsOverscannedViewport ==
    answer.kind = "range" =>
        IF table.count = 0
        THEN answer.start = 0 /\ answer.end = -1
        ELSE /\ answer.start =
                   GreatestAtMost(TableOffsets, Max2(0, answer.input - OVERSCAN_PX),
                                  table.count)
             /\ answer.end =
                   Min2(table.count - 1,
                        GreatestAtMost(TableOffsets,
                                       answer.input + ViewportHeight + OVERSCAN_PX,
                                       table.count))

\* C12 witness: a range that leaves out items above it, selected at a
\* scroll position more than the overscan below them.
RangeStartsBelowTop ==
    /\ answer.kind = "range"
    /\ answer.input > OVERSCAN_PX
    /\ answer.start > 0
    /\ answer.end >= answer.start

\* the centred position of item index before it is clamped
CentredOffset(index) ==
    OffsetAt(TableOffsets, index, 0) - ViewportHeight \div 2
        + getItemHeight(table.hts, index) \div 2

\* C13 as claimed: the jump target is the centred offset clamped to
\* [0, total - viewportHeight]: never negative, never above total -
\* viewportHeight.
TargetWithinContent ==
    answer.kind = "target" =>
        /\ answer.clamped >= 0
        /\ answer.clamped <= TotalHeight(TableOffsets) - ViewportHeight

\* C13 amended: the jump target is the centred offset clamped to
\* [0, max(0, total - viewportHeight)]: it is the centred offset when that
\* lies in the interval, else the nearer end; content shorter than the
\* viewport gives 0.
TargetClamped ==
    answer.kind = "target" =>
        LET raw == CentredOffset(answer.input)
            top == Max2(0, TotalHeight(TableOffsets) - ViewportHeight)
        IN  /\ answer.clamped >= 0
            /\ answer.clamped <= top
            /\ raw \in 0..top => answer.clamped = raw
            /\ raw < 0 => answer.clamped = 0
            /\ raw > top => answer.clamped = top

\* C13 witness: a target for content shorter than the viewport, and so above
\* total - viewportHeight.
TargetOfShortContent ==
    /\ answer.kind = "target"
    /\ TotalHeight(TableOffsets) < ViewportHeight
    /\ answer.clamped = 0

\* C14 as claimed: two reachable states with the same scrollTop, viewport
\* height, item count and height cache select the same range.
WindowOfHeights ==
    (/\ pinned # NoPin
     /\ pinned.scrollTop = scrollTop
     /\ pinned.count = Len(timeline)
     /\ pinned.heights = heights)
        => pinned.range = window

\* C14 amended: the selected range is the range of the current scrollTop,
\* viewport height, item count and offsets table, so two reachable states
\* that agree on these select the same range.
WindowOfOffsets ==
    /\ window = visibleRange(Len(timeline), scrollTop, ViewportHeight, offsets)
    /\ (/\ pinned # NoPin
        /\ pinned.scrollTop = scrollTop
        /\ pinned.count = Len(timeline)
        /\ pinned.offsets = offsets)
           => pinned.range = window

\* C14 witness: the observed state and a later one, reached by scrolling the
\* other way, agree on scrollTop, item count and offsets table, and the
\* range they select leaves out items of the sequence.
SameOffsetsOtherHistory ==
    /\ pinned # NoPin
    /\ pinned.scrollTop = scrollTop
    /\ pinned.count = Len(timeline)
    /\ pinned.offsets = offsets
    /\ pinned.direction # scrollDirection
    /\ window.end < Len(timeline) - 1

InteractionIsPermanent ==
    /\ [](~userInteracted => (~canAutoLoad /\ inflight = <<>>))
    /\ [](userInteracted => (canAutoLoad /\ ~animationsEnabled))
    /\ [][userInteracted => userInteracted']_vars

\* C16 witness: after the interaction two further pages were loaded and a
\* fetch failed; pagination is still enabled.
InteractedLongAgo ==
    /\ userInteracted
    /\ Cardinality(loadedYears) = 3
    /\ failed
    /\ canAutoLoad

\* a logged snap was applied at an epoch other than the one its request
\* consumed last and newer than every epoch the request had snapped at
SnapAtNewEpoch(e) ==
    /\ e.epoch # e.last
    /\ e.epoch > e.before

\* C17: the epoch never decreases, and a snap of a pending jump or of a
\* language anchor is applied only at an epoch that differs from the one the
\* request consumed last and is newer than every epoch the request has
\* snapped at: one snap per epoch at most.
SnapsOnNewEpochs ==
    /\ [](\A i \in 1..Len(step.applied) : SnapAtNewEpoch(step.applied[i]))
    /\ [](pendingSnap # NoSnap => pendingSnap.lastMeasureVersion <= measureVersion)
    /\ [](pendingLanguageAnchor # NoLanguageAnchor =>
              pendingLanguageAnchor.lastMeasureVersion <= measureVersion)
    /\ [][measureVersion' >= measureVersion]_vars

\* both a jump and a language anchor have snapped, the anchor at two epochs
BothSnapped ==
    /\ snaps >= 1
    /\ pendingLanguageAnchor # NoLanguageAnchor
    /\ pendingLanguageAnchor.remaining <= LANGUAGE_ANCHOR_ATTEMPTS - 2
    /\ \E i \in 1..Len(step.applied) : step.applied[i].kind = "anchor"

\* what a step leaves behind that reset the measurements and re-anchored:
\* the cache was cleared, the epoch is newer, a language anchor was
\* registered in the step and has already snapped
ResetAndReanchored ==
    /\ step'.resets >= 1
    /\ measureVersion' > measureVersion
    /\ step'.registered
    /\ pendingLanguageAnchor' # NoLanguageAnchor
    /\ \E i \in 1..Len(step'.applied) : step'.applied[i].kind = "anchor"

\* a language change on a loaded timeline resets the measurements and
\* re-anchors
LanguageChangeReanchors ==
    [][(timeline # <<>> /\ language' # language) => ResetAndReanchored]_vars

\* C20: every language change and every filter change on a non-empty
\* timeline clears the stored heights with an epoch bump and registers a
\* re-anchor request, which the convergence protocol then runs.
ChangeResetsAndReanchors ==
    [][(/\ timeline # <<>>
        /\ \/ language' # language
           \/ selectedPlatforms' # selectedPlatforms) => ResetAndReanchored]_vars

\* a filter change on a loaded timeline resets the measurements
FilterChangeResets ==
    [][(timeline # <<>> /\ selectedPlatforms' # selectedPlatforms)
          => (step'.resets >= 1 /\ measureVersion' > measureVersion)]_vars

\* C19: when the index is refused, is empty or lists no readable year, or
\* the initial page is refused, the timeline stays empty, the error is set
\* and shown in place of the list, and no page fetch is started from then
\* on: none is in flight and no step starts one.
InitialFailureBlocks ==
    (initialLoad = "failed") =>
        /\ timeline = <<>>
        /\ error \in {loadInitialError(a) : a \in FailingAnswers} \ {NULL}
        /\ showError
        /\ inflight = <<>>
        /\ triggers = <<>>
        /\ ~loadingPrev /\ ~loadingNext
        /\ loadedYears = {}

\* C19 witness: the index was empty, and afterwards the user has interacted
\* and wheeled upwards with auto-load enabled
FailedThenInteracted ==
    /\ initialLoad = "failed"
    /\ error = "Release index is empty."
    /\ userInteracted
    /\ canAutoLoad
    /\ scrollDirection = "up"

\* C18: a page fetch, initial or adjacent, that completes after the unmount
\* applies nothing: the timeline, the loaded years, the stored heights and
\* the pending scroll shift are what they were.
LateFetchAppliesNothing ==
    [][~mounted => /\ timeline' = timeline
                   /\ loadedYears' = loadedYears
                   /\ heights' = heights
                   /\ pendingScrollShift' = pendingScrollShift]_vars

\* after the unmount the timeline and the loaded years never change, and
\* the initial load settles without writing the heights or the shift
LateFetchKeepsState ==
    [][~mounted => /\ timeline' = timeline
                   /\ loadedYears' = loadedYears
                   /\ (initialLoad' # initialLoad =>
                          /\ heights' = heights
                          /\ pendingScrollShift' = pendingScrollShift)]_vars

\* the initial load has settled after the unmount
InitialLoadSettledLate ==
    ~mounted /\ initialLoad = "done" /\ timeline = <<>>

\* an adjacent-page fetch of this direction settles in the step
Settles(direction) ==
    Cardinality({k \in 1..Len(inflight') : inflight'[k].direction = direction})
        < Cardinality({k \in 1..Len(inflight) : inflight[k].direction = direction})

\* C21: the error a failed older-page load recorded is neither cleared nor
\* overwritten when a newer-page load settles, and the error of a failed
\* newer-page load is kept when an older-page load settles.
ErrorPerDirection ==
    [][/\ (error = FailedToLoad(2024) /\ Settles("next") /\ ~Settles("prev"))
            => error' = error
       /\ (error = FailedToLoad(2026) /\ Settles("prev") /\ ~Settles("next"))
            => error' = error]_vars

\* a failed load records the error of its own page
FailureRecordsOwnError ==
    [][failed' # failed =>
          \E k \in 1..Len(inflight) : error' = FailedToLoad(inflight[k].year)]_vars

\* the height of item i of the table: the stored height, or the estimate
\* when none is stored
HeightOf(i) ==
    IF i \in DOMAIN table.hts THEN table.hts[i] ELSE ESTIMATED_ITEM_HEIGHT

\* the sum of the heights of the first n items of the table
RECURSIVE SumOfHeights(_)
SumOfHeights(n) == IF n <= 0 THEN 0 ELSE SumOfHeights(n - 1) + HeightOf(n - 1)

\* C22 as stated: every item, the last one included, is followed by the gap:
\* offsets[i+1] = offsets[i] + height(i) + gap for every i in 0..count-1 and
\* the total is the sum of the heights plus count gaps.
EveryItemAddsGap ==
    /\ \A i \in 0..(table.count - 1) :
          TableOffsets[i + 2] = TableOffsets[i + 1] + HeightOf(i) + ITEM_GAP
    /\ TotalHeight(TableOffsets) = SumOfHeights(table.count) + table.count * ITEM_GAP

\* C22 amended: offsets[0] = 0 and offsets[i+1] = offsets[i] + height(i) + gap
\* for every item but the last, which adds its height alone; the total is
\* the sum of the heights plus count - 1 gaps, 0 for no item.
InnerItemsAddGap ==
    /\ Len(TableOffsets) = table.count + 1
    /\ TableOffsets[1] = 0
    /\ \A i \in 0..(table.count - 1) :
          TableOffsets[i + 2] = TableOffsets[i + 1] + HeightOf(i)
                                   + (IF i = table.count - 1 THEN 0 ELSE ITEM_GAP)
    /\ TotalHeight(TableOffsets) =
          IF table.count = 0 THEN 0
          ELSE SumOfHeights(table.count) + (table.count - 1) * ITEM_GAP

\* C22 witness: a table of several items, some measured and some not
MixedTable ==
    /\ table.count >= 3
    /\ \E i \in 0..(table.count - 1) : i \in DOMAIN table.hts
    /\ \E i \in 0..(table.count - 1) : i \notin DOMAIN table.hts
    /\ InnerItemsAddGap

\* C23 as stated: whenever the window, a jump or an anchor reads the
\* offsets table, the table is the prefix sums of the heights stored at
\* that moment.
ReadsSeeStoredHeights ==
    step.stale = {}

\* C23 amended: the offsets table is recomputed when the item count or the
\* epoch changes; it is the prefix sums of the stored heights in every
\* state in which no measurement awaits its frame.
OffsetsOfLastEpoch ==
    (mounted /\ ~measureRaf) => offsets = ComputeOffsets(Len(timeline), heights)

\* C23 witness: the table was recomputed after the items were measured at
\* heights other than the estimate, and no measurement is pending
OffsetsCaughtUp ==
    /\ ~measureRaf
    /\ measureVersion >= 5
    /\ Len(timeline) # 0
    /\ \E i \in DOMAIN heights : heights[i] # ESTIMATED_ITEM_HEIGHT
    /\ offsets = ComputeOffsets(Len(timeline), heights)
    /\ offsets # ComputeOffsets(Len(timeline), <<>>)

\* C24: on a loaded timeline topSpacer = offsets[start] and bottomSpacer =
\* total - offsets[end+1], so that the two spacers and the extent of the
\* materialized items add up to the total; on an empty one both are 0.
SpacersFillTotal ==
    IF Len(timeline) = 0
    THEN topSpacer = 0 /\ bottomSpacer = 0
    ELSE /\ window.start \in 0..(Len(timeline) - 1)
         /\ window.end \in window.start..(Len(timeline) - 1)
         /\ topSpacer = offsets[window.start + 1]
         /\ bottomSpacer = offsets[Len(offsets)] - offsets[window.end + 2]
         /\ topSpacer + (offsets[window.end + 2] - offsets[window.start + 1])
               + bottomSpacer = offsets[Len(offsets)]

\* C24 witness: the list is scrolled so far that items above the window are
\* not materialized
SpacerAboveWindow ==
    /\ window.start > 0
    /\ topSpacer > 0
    /\ \E i \in DOMAIN heights : heights[i] # ESTIMATED_ITEM_HEIGHT

\* a logged snap was applied with budget left to a position further than
\* the tolerance from its target
SnapOffTarget(e) ==
    /\ e.delta > SNAP_TOLERANCE
    /\ e.budget > 0

\* C25: a pending jump and a pending language anchor whose recomputed
\* target is within the tolerance of the scroll position are discarded
\* without a snap and without spending budget, and neither snaps once its
\* budget is spent: every snap is applied off the target with budget left,
\* and a request that processed an epoch change on target is gone.
SnapsOnlyOffTarget ==
    /\ \A i \in 1..Len(step.applied) : SnapOffTarget(step.applied[i])
    /\ (\E i \in 1..Len(step.applied) :
           step.applied[i].kind = "anchor" /\ step.applied[i].delta <= SNAP_TOLERANCE)
         => pendingLanguageAnchor = NoLanguageAnchor

\* the part of C25 that is about jumps
JumpSnapsOnlyOffTarget ==
    \A i \in 1..Len(step.applied) :
        step.applied[i].kind = "jump" => SnapOffTarget(step.applied[i])

\* a language anchor never snaps without budget
AnchorSnapsWithinBudget ==
    \A i \in 1..Len(step.applied) : step.applied[i].budget > 0

\* the frame callbacks of a Today jump that are queued
TodayWaits == SelectSeq(rafQueue, LAMBDA cb : cb.kind \in TodayKinds)

\* the step registers a pending request other than that of the initial jump
TodayRegisters ==
    jumps' > jumps /\ didInitialScroll' = didInitialScroll

\* C26: a Today jump with a coarse anchor jumps to the anchor at once and
\* registers nothing; its wait is two frame callbacks, the first queueing
\* the second; the second applies the precise jump and registers the
\* pending request with the full budget; a Today click or a pointer
\* interaction during the wait cancels the callbacks of the jump under way.
CoarseThenPrecise ==
    /\ [](todayJumpRaf <=> Len(TodayWaits) = 1)
    /\ [](Len(TodayWaits) <= 1)
    /\ [][(ClickToday /\ findYearAnchorIndex(timeline, CurrentYear) # -1) =>
             /\ jumps' = jumps
             /\ todayJumpRaf'
             /\ Len(TodayWaits') = 1 /\ TodayWaits'[1].kind = "today1"
             /\ elScrollTop' = getScrollTarget(offsets, heights,
                                   findYearAnchorIndex(timeline, CurrentYear))
             /\ scrollTop' = elScrollTop']_vars
    /\ [][(Frame /\ Len(TodayWaits) = 1 /\ TodayWaits[1].kind = "today1") =>
             /\ ~TodayRegisters
             /\ Len(TodayWaits') = 1 /\ TodayWaits'[1].kind = "today2"]_vars
    /\ [][TodayRegisters =>
             /\ Frame
             /\ Len(TodayWaits) = 1 /\ TodayWaits[1].kind = "today2"
             /\ ~todayJumpRaf'
             /\ (pendingSnap' # NoSnap =>
                    pendingSnap'.remaining = SCROLL_SNAP_ATTEMPTS - snaps')]_vars
    /\ [][(PointerDown /\ todayJumpRaf) =>
             /\ TodayWaits' = <<>>
             /\ ~todayJumpRaf'
             /\ jumps' = jumps]_vars

\* C26 witness: after the initial jump, a Today jump has gone through its
\* wait and registered its request
TodayRegistered ==
    jumps = 2 /\ didInitialScroll /\ ~todayJumpRaf

\* the anchor a language switch records from the state it is clicked in: the
\* index of the item under the middle of the viewport and the distance from
\* that item's top to the middle
RecordedAnchor ==
    LET viewportCenter == scrollTop + ViewportHeight \div 2
        index == findIndexForOffset(offsets, viewportCenter)
    IN  [index |-> index,
         centerDelta |-> viewportCenter - OffsetAt(offsets, index, 0)]

\* the last re-anchor snap of the step just taken; kind is "none" when the
\* step's last scroll write was not a re-anchor snap
LastAnchorSnap ==
    IF step.applied # <<>> /\ step.applied[Len(step.applied)].kind = "anchor"
    THEN step.applied[Len(step.applied)]
    ELSE [kind |-> "none"]

\* a re-anchor snap that was not clamped at a scroll bound is the last scroll
\* write of the step and the table it used is still the current one
UnclampedAnchorSnap ==
    /\ LastAnchorSnap.kind = "anchor"
    /\ LastAnchorSnap.clamped = LastAnchorSnap.target
    /\ LastAnchorSnap.epoch = measureVersion
    /\ pendingLanguageAnchor # NoLanguageAnchor
    /\ scrollTop = LastAnchorSnap.clamped

\* C27: a language switch on a non-empty sequence records the item under the
\* middle of the viewport and the distance from that item's top to the middle;
\* after every re-anchor snap that is not clamped at a scroll bound, the
\* distance from the recorded item's top (in the offsets table the snap read)
\* to the middle of the viewport is the recorded distance
AnchorKeepsCenterOffset ==
    /\ [][(step'.registered /\ Len(timeline) > 0)
            => /\ pendingLanguageAnchor'.index = RecordedAnchor.index
               /\ pendingLanguageAnchor'.centerDelta = RecordedAnchor.centerDelta]_vars
    /\ [](UnclampedAnchorSnap
            => /\ LastAnchorSnap.top = OffsetAt(offsets, pendingLanguageAnchor.index, 0)
               /\ scrollTop + ViewportHeight \div 2
                      - OffsetAt(offsets, pendingLanguageAnchor.index, 0)
                  = pendingLanguageAnchor.centerDelta)

\* C27 witness: an unclamped re-anchor snap on an item other than the first,
\* away from the top, after the heights under it changed
AnchorSnappedMidList ==
    /\ UnclampedAnchorSnap
    /\ pendingLanguageAnchor.index > 0
    /\ scrollTop > 0
    /\ pendingLanguageAnchor.centerDelta # ViewportHeight \div 2

\* the scroll shifts the step just taken applied, added up
RECURSIVE SumOfShifts(_)
SumOfShifts(log) ==
    IF log = <<>> THEN 0 ELSE log[1].shift + SumOfShifts(Tail(log))

\* every scroll shift of the step left the element inside its scroll range
ShiftsClamped(log) ==
    \A i \in 1..Len(log) :
        /\ log[i].to = ClampScroll(log[i].from + log[i].shift, log[i].total,
                                   ViewportHeight)
        /\ log[i].to >= 0
        /\ log[i].to <= (IF log[i].total > ViewportHeight
                         THEN log[i].total - ViewportHeight ELSE 0)

\* C28: the scroll shift applied with an older-page merge is the number of
\* items the merge added to the sequence times (estimate + gap), and the
\* offset it produces is clamped to [0, max(0, total - viewport height)]
ShiftMatchesAddedItems ==
    [][OlderMerge
          => /\ SumOfShifts(step'.shifts) + pendingScrollShift'
                    = (Len(timeline') - Len(timeline))
                          * (ESTIMATED_ITEM_HEIGHT + ITEM_GAP)
             /\ ShiftsClamped(step'.shifts)]_vars

\* what holds of every older-page merge: the shift is the length of the
\* page times (estimate + gap), applied once the sequence or the total
\* changed, and the offset it produces is clamped to the scroll range
ShiftMatchesPage ==
    [][OlderMerge
          => /\ \E n \in 0..(MaxPage + 1) :
                    SumOfShifts(step'.shifts) + pendingScrollShift'
                        = pendingScrollShift + estimateAddedHeight(n)
             /\ ShiftsClamped(step'.shifts)]_vars

\* the step wrote the scroll offset through a snap, a jump or a shift
ScrollWritten ==
    \/ step'.applied # <<>>
    \/ step'.shifts # <<>>
    \/ jumps' # jumps

\* C29: a newer-page merge leaves the stored heights, the pending scroll
\* shift and the scroll offset as they were and every item that was present
\* at its index; a step that remaps the stored heights or schedules a scroll
\* shift is an older-page merge
NewerMergeIsFrame ==
    [][/\ NewerMerge
          => /\ mergedHeights' = heights
             /\ pendingScrollShift' = pendingScrollShift
             /\ step'.shifts = <<>>
             /\ (~ScrollWritten => elScrollTop' = elScrollTop)
             /\ Len(timeline') >= Len(timeline)
             /\ \A i \in 1..Len(timeline) :
                    timeline'[i].date = timeline[i].date
       /\ (\/ SumOfShifts(step'.shifts) + pendingScrollShift' # pendingScrollShift
           \/ (mergedHeights' # mergedHeights /\ mergedHeights' # heights))
          => OlderMerge]_vars

\* what holds of every newer-page merge: the handler leaves the stored
\* heights and the pending shift it found, and only an older-page merge
\* remaps the heights or adds to the shift
NewerMergeKeepsCache ==
    [][/\ NewerMerge
          => /\ mergedHeights' = heights
             /\ SumOfShifts(step'.shifts) + pendingScrollShift'
                    = pendingScrollShift
       /\ (\/ SumOfShifts(step'.shifts) + pendingScrollShift' # pendingScrollShift
           \/ (mergedHeights' # mergedHeights /\ mergedHeights' # heights))
          => OlderMerge]_vars

\* the frame callbacks of measureItem waiting in the queue
MeasureFramesQueued ==
    Len(SelectSeq(rafQueue, LAMBDA cb : cb.kind = "measure"))

\* C30: however many changed measurements were recorded, one frame callback
\* waits for them and the frame that runs it raises the epoch by exactly
\* one; a frame without such a callback and a step that only measures leave
\* the epoch; every changed measurement is eventually followed by a higher
\* epoch; and recording the height that is stored changes neither the store
\* nor the epoch nor the queue
MeasurementsBatched ==
    /\ [](MeasureFramesQueued = (IF measureRaf THEN 1 ELSE 0))
    /\ [][step'.measured > 0 => measureRaf']_vars
    /\ [][Frame => measureVersion' = measureVersion
                        + (IF measureRaf THEN 1 ELSE 0)]_vars
    /\ [][Reflow(DomHeights) => measureVersion' = measureVersion]_vars
    /\ \A v \in 0..(MaxVersion - 1) :
           (measureRaf /\ measureVersion = v) ~> (measureVersion > v)
    /\ [](\A i \in DOMAIN heights :
             LET t == measureItem(Cur, i, heights[i])
             IN  /\ t.heights = heights
                 /\ t.measureVersion = measureVersion
                 /\ t.measureRaf = measureRaf
                 /\ t.rafQueue = rafQueue)

\* C30 witness: one commit recorded several changed measurements and one
\* frame callback waits for all of them
BatchOfMeasurements ==
    /\ step.measured >= 2
    /\ measureRaf
    /\ MeasureFramesQueued = 1

\* the height the store holds for this index, 0 when it holds none
StoredAt(hts, i) == IF i \in DOMAIN hts THEN hts[i] ELSE 0

\* C31: a reported height of 0 or less is ignored: the entry of that index
\* keeps its value or stays absent, and no frame callback is requested for
\* it; a step in which no changed measurement was recorded leaves the
\* measurement flag as it was unless its own frame callback ran
NonPositiveIgnored ==
    /\ [](\A i \in 0..(Len(timeline) - 1) : \A h \in {0, -1} :
             LET t == measureItem(Cur, i, h)
             IN  /\ t.heights = heights
                 /\ t.measureRaf = measureRaf
                 /\ t.rafQueue = rafQueue
                 /\ t.measureVersion = measureVersion)
    /\ [][\A i \in 1..Len(timeline) :
             (/\ Len(timeline') = Len(timeline)
              /\ domHeight'[timeline[i].date] <= 0)
                 => /\ (i - 1 \in DOMAIN heights') = (i - 1 \in DOMAIN heights)
                    /\ StoredAt(heights', i - 1) = StoredAt(heights, i - 1)]_vars
    /\ [][step'.measured = 0 => (measureRaf' => measureRaf)]_vars
    /\ [](\A i \in DOMAIN heights : heights[i] > 0)

\* C31 witness: a measured item is no longer laid out, its node reports 0,
\* the store still holds its earlier height and no frame callback waits
AnomalyIgnored ==
    /\ ~measureRaf
    /\ \E i \in 1..Len(timeline) :
          /\ domHeight[timeline[i].date] = 0
          /\ i - 1 \in DOMAIN heights
          /\ heights[i - 1] > 0
    /\ \E i \in 1..Len(timeline) :
          /\ domHeight[timeline[i].date] = 0
          /\ i - 1 \notin DOMAIN heights

\* C32: in the Virtuoso-based variant the sequence is ordered by date key
\* ascending after the initial load and after every loadPrev and loadNext
\* merge
VirtuosoOrdered ==
    \A i \in 1..(Len(virtuoso.data) - 1) :
        DateTime(virtuoso.data[i].date) < DateTime(virtuoso.data[i + 1].date)

\* what holds of the variant's sequence: no date key occurs twice
VirtuosoKeysDistinct ==
    \A i, j \in 1..Len(virtuoso.data) :
        virtuoso.data[i].date = virtuoso.data[j].date => i = j

\* every game of the sequence part is a game of the sequence whole
GamesWithin(part, whole) ==
    \A i \in 1..Len(part) : \A g \in 1..Len(part[i].games) :
        \E j \in 1..Len(whole) :
            /\ whole[j].date = part[i].date
            /\ \E h \in 1..Len(whole[j].games) : whole[j].games[h] = part[i].games[g]

\* C33: with an older-page and a newer-page load in flight together, each
\* completion keeps every item and loaded page key that was there, whatever
\* completed before it, and adds every item of its own page and its own
\* page key: after both, in either order, the sequence holds the items of
\* both pages and of the prior sequence and the loaded set holds both keys
CompletionsCompose ==
    /\ [][step'.arrived.direction # "none"
            => /\ GamesWithin(timeline, timeline')
               /\ loadedYears \subseteq loadedYears']_vars
    /\ [](step.arrived.direction # "none"
            => /\ GamesWithin(step.arrived.entries, timeline)
               /\ step.arrived.year \in loadedYears)

\* C33 witness: a page with an item arrived and was merged while the load
\* of the other direction was still in flight
MergedWhileOtherInFlight ==
    /\ step.arrived.direction # "none"
    /\ step.arrived.entries # <<>>
    /\ step.arrived.others # <<>>
    /\ Len(timeline) >= 2

\* the step starts an older-page fetch
StartsOlderFetch ==
    \E k \in 1..Len(inflight') :
        /\ inflight'[k].direction = "prev"
        /\ inflight'[k] \notin SeqToSet(inflight)

\* C34: the completion of an older-page load that prepends at least one
\* item never starts the fetch of the next older page
CompletionStartsNoFetch ==
    [][(/\ step'.arrived.direction = "prev"
        /\ Len(timeline') > Len(timeline))
          => ~StartsOlderFetch]_vars

\* C35: the loaded page keys are available keys, form a run of the sorted
\* available list without a hole and contain the initial page; a load in
\* flight is for the greatest available key below (the least above) all
\* loaded keys; a page that arrives is not loaded yet
LoadedRunIsContiguous ==
    /\ [](/\ loadedYears \subseteq SeqToSet(availableYears)
          /\ loadedYears # {} => InitialYear \in loadedYears
          /\ \A y \in SeqToSet(availableYears) :
                (loadedYears # {} /\ SetMin(loadedYears) <= y /\ y <= SetMax(loadedYears))
                    => y \in loadedYears
          /\ \A k \in 1..Len(inflight) :
                /\ inflight[k].direction = "prev"
                      => inflight[k].year = prevYearOf(availableYears, loadedYears)
                /\ inflight[k].direction = "next"
                      => inflight[k].year = nextYearOf(availableYears, loadedYears)
                /\ inflight[k].year \in SeqToSet(availableYears) \ loadedYears)
    /\ [][step'.arrived.direction # "none"
            => /\ step'.arrived.year \notin loadedYears
               /\ loadedYears' = loadedYears \cup {step'.arrived.year}]_vars

\* C35 witness: every page of an index with two older years is loaded
LoadedDownToOldest ==
    /\ Len(availableYears) = 3
    /\ loadedYears = SeqToSet(availableYears)
    /\ SetMax(loadedYears) = InitialYear

\* item i of the table occupies [offsets[i], offsets[i+1]) and that extent
\* meets the viewport [top, top + viewportHeight]
MeetsViewport(i, top) ==
    /\ TableOffsets[i + 1] <= top + ViewportHeight
    /\ TableOffsets[i + 2] > top

\* C36: for a non-empty sequence and a scrollTop in [0, total] the range has
\* start <= end and holds every item whose extent meets the viewport
ViewportMaterialized ==
    (/\ answer.kind = "range"
     /\ table.count > 0
     /\ answer.input \in 0..TotalHeight(TableOffsets))
        => /\ answer.start <= answer.end
           /\ \A i \in 0..(table.count - 1) :
                 MeetsViewport(i, answer.input) => (answer.start <= i /\ i <= answer.end)

\* C36 witness: a range selected at the very end of the content, where the
\* last item alone meets the viewport and items above the range are left out
LastItemMaterialized ==
    /\ answer.kind = "range"
    /\ table.count > 1
    /\ answer.input = TotalHeight(TableOffsets) - 1
    /\ MeetsViewport(table.count - 1, answer.input)
    /\ ~MeetsViewport(table.count - 2, answer.input)
    /\ answer.start > 0
    /\ answer.end = table.count - 1

\* something is left that will clear the transition flag: the older load is
\* still in flight, its scroll shift waits for the layout effect, or one of
\* the two animation frames of the layout effect is queued
ClearingPending ==
    \/ loadingPrev
    \/ \E k \in 1..Len(inflight) : inflight[k].direction = "prev"
    \/ pendingScrollShift # 0
    \/ \E k \in 1..Len(rafQueue) : rafQueue[k].kind \in {"transition1", "transition2"}

\* C37: an older-page load that set the transition flag clears it once the
\* load completes, whether the fetch fails, returns an empty page or returns
\* items: while the component is mounted the flag is never left set with
\* the load complete and nothing pending that clears it
OverlayCleared ==
    (mounted /\ isTransitioning) => ClearingPending

\* the frame callbacks of a jump, of the Today button or of the initial
\* scroll, that are queued
JumpWaits == SelectSeq(rafQueue, LAMBDA cb : cb.kind \in TodayKinds \cup InitKinds)

\* C38: a pointer interaction discards every programmatic jump in progress,
\* the automatic initial jump included: it leaves no pending request and no
\* queued jump step, and after an interaction a request is registered only
\* by a Today click or by the frames of a Today click made since
InteractionDiscardsJumps ==
    /\ [][PointerDown => (pendingSnap' = NoSnap /\ JumpWaits' = <<>>)]_vars
    /\ [][(userInteracted /\ jumps' > jumps) => (ClickToday \/ todayJumpRaf)]_vars

\* the frame callbacks of the initial scroll that are queued
InitialWaits == SelectSeq(rafQueue, LAMBDA cb : cb.kind \in InitKinds)

VariantJumpsOnce ==
    /\ virtuoso.initialJumps <= 1
    /\ Len(virtuoso.timers) <= 1
    /\ (virtuoso.timers # <<>> \/ virtuoso.initialJumps = 1) => virtuoso.didInitialScrollRef

\* the distance of a date from today
FromToday(date) == Abs(DateTime(date) - DateTime(Today))

\* index is the item of dates that is dated today when there is one, else
\* the item nearest to today, the earlier one of two as near
IsTodayTarget(dates, index) ==
    /\ index \in 0..(Len(dates) - 1)
    /\ \A k \in 1..Len(dates) :
          /\ dates[k] = Today => dates[index + 1] = Today
          /\ FromToday(dates[index + 1]) <= FromToday(dates[k])
          /\ FromToday(dates[index + 1]) = FromToday(dates[k]) => dates[index + 1] <= dates[k]

\* C40: for a non-empty timeline sorted by date the target of the jump to
\* today is the item dated today when there is one, else the item nearest
\* to today, the earlier one of two as near; it is an index of the timeline
TodayTargetNearest ==
    (answer.kind = "today" /\ answer.dates # <<>>)
        => /\ IsTodayTarget(answer.dates, answer.index)
           /\ IsTodayTarget(answer.dates, answer.variant)

\* C40 witness: no item is dated today and the nearest earlier and the
\* nearest later item are as far from today; the earlier one is the target
TieResolvedEarlier ==
    /\ answer.kind = "today"
    /\ \A k \in 1..Len(answer.dates) : answer.dates[k] # Today
    /\ \E i, j \in 1..Len(answer.dates) :
          /\ i < j
          /\ FromToday(answer.dates[i]) = FromToday(answer.dates[j])
          /\ answer.index = i - 1
          /\ answer.variant = i - 1

====
